---- MODULE Spec2Model ----
(***************************************************************************)
(* Model of the Response Orchestrator of packages/core/src/bootstrap.ts:   *)
(* messageReceivedHandler, checkShouldRespond and the module-level token   *)
(* table latestResponseIds.                                                *)
(*                                                                         *)
(* JavaScript runs one handler at a time until it reaches an await; every  *)
(* action below is one such synchronous run of one handler invocation,     *)
(* from the settling of the promise it waits on to the next await.         *)
(***************************************************************************)
EXTENDS Integers, FiniteSets, Sequences, TLC

\* Number of messageReceivedHandler invocations of one run of Spec; SpecWide
\* runs one invocation more.
MaxHandlers == 2
\* Number of conversations (rooms) the messages are spread over.
NumRooms == 2

\* Longest message text checkShouldRespond is applied to.
MaxTextLen == 3
\* Number of reflection passes (calls of the evaluator's handler) of one run.
MaxPasses == 1
\* Longest relationships list and longest facts list of one extraction.
MaxRels == 2
MaxFacts == 1
\* Largest configured conversation length and longest message history
\* validate is applied to.
MaxConversationLength == 8
MaxHistory == 11
\* Longest facts list of the extraction whose fact writes are followed one
\* by one.
MaxExtracted == 3
\* Longest roster and longest plain identifier resolveEntity is applied to.
MaxRoster == 2
MaxIdLen == 2
\* Longest text the model answers generateObject with, and longest list of
\* enumValues.
MaxOutputLen == 4
MaxEnumValues == 2
\* Number of messages whose evaluation (validate, then the pass) is
\* followed, and number of messages the conversation holds before them.
MaxEvaluations == 2
MaxBacklog == 2
\* Most rooms and most users of one server sync event.
MaxSyncRooms == 2
MaxSyncUsers == 3

Handlers == 1..(MaxHandlers + 1)
Rooms == 1..NumRooms
\* The one runtime (runtime.agentId) the handlers belong to.
Agents == {"agent"}
AgentId == "agent"

\* Map objects on the heap: every invocation creates at most one inner Map.
MapRefs == Handlers
NoRef == 0
\* What Map.prototype.get answers for a missing key.
Undefined == 0

\* message.userId === runtime.agentId ("own"), text contains the character
\* name ("mention"), or neither ("plain").
MessageKinds == {"own", "mention", "plain"}
NoMessage == [roomId |-> 0, kind |-> "none"]

UserStates == {"MUTED", "FOLLOWED", "NONE"}
\* The keywords the text of the TEXT_SMALL model contains.
Keywords == {"RESPOND", "IGNORE", "STOP"}

NoCalls ==
    [addEmbeddingToMemory |-> 0, createMemory |-> 0, checkShouldRespond |-> 0,
     TEXT_SMALL |-> 0, TEXT_LARGE |-> 0, processActions |-> 0, evaluate |-> 0]

VARIABLES
    latestResponseIds,  \* outer Map: agentId -> reference of the inner Map
    maps,               \* heap of inner Maps: reference -> set of <<roomId, responseId>>
    pc,                 \* per invocation: the await it is suspended at
    message,            \* per invocation: the inbound message
    responseId,         \* per invocation: const responseId = v4()
    agentResponses,     \* per invocation: the inner Map reference it holds
    shouldRespond,      \* per invocation: result of checkShouldRespond, as a string
    responseContent,    \* per invocation: result of parseJSONObjectFromText
    persisted,          \* per invocation: outcome of the Promise.all of line 204
    stale,              \* per invocation: took the "Response discarded" return
    calls               \* per invocation: collaborator calls issued so far

handlerVars == <<latestResponseIds, maps, pc, message, responseId,
                 agentResponses, shouldRespond, responseContent, persisted,
                 stale, calls>>

VARIABLES
    csr                 \* one call of checkShouldRespond: its inputs, the
                        \* answers its collaborators give, its position and result

VARIABLES
    relationships,        \* relationship store: sequence of edges, an edge's id is its index
    initialRelationships, \* the relationship store as it was before the first pass
    facts,                \* memory table "facts": sequence of created memories
    cache,                \* per room: value under `${roomId}-reflection-last-processed`
    pass,                 \* per reflection pass: the locals of handler() and its position
    observed              \* per ordered pair: relationship writes completed so far

reflectionVars == <<relationships, initialRelationships, facts, cache, pass,
                    observed>>

VARIABLES
    val,                  \* one call of reflectionEvaluator.validate: its inputs,
                          \* its locals, its position and result
    fp,                   \* the fact writes of one reflection pass (lines 299-320),
                          \* fact by fact
    res,                  \* one call of resolveEntity: its arguments, its position
                          \* and its result or failure
    gen,                  \* one call of generateObject: its arguments, its
                          \* position, the model's answer and its result
    ev,                   \* the evaluations of one conversation: its messages,
                          \* its checkpoint, and validate and the pass per message
    event,                \* per invocation of messageReceivedHandler: the event
                          \* it was registered for
    rx,                   \* one invocation of reactionReceivedHandler
    sync,                 \* one invocation of handleServerSync
    br                    \* one call of createBranch: the requests it issued,
                          \* their answers, its position and its result

\* The calls of single functions that are followed on their own.
callVars == <<val, fp, res, gen, ev, event, rx, sync, br>>

\* The state outside messageReceivedHandler.
otherVars == <<csr, reflectionVars, callVars>>

\* The state outside one call of checkShouldRespond.
nonCsrVars == <<handlerVars, reflectionVars, callVars>>

\* The state outside the reflection evaluator.
nonReflectionVars == <<handlerVars, csr, callVars>>

\* The state outside the calls of single functions.
nonCallVars == <<handlerVars, csr, reflectionVars>>
\* What the steps of one followed call leave alone.
nonValVars == <<nonCallVars, fp, res, gen, ev, event, rx, sync, br>>
nonFpVars == <<nonCallVars, val, res, gen, ev, event, rx, sync, br>>
nonResVars == <<nonCallVars, val, fp, gen, ev, event, rx, sync, br>>
nonGenVars == <<nonCallVars, val, fp, res, ev, event, rx, sync, br>>
nonEvVars == <<nonCallVars, val, fp, res, gen, event, rx, sync, br>>
nonRxVars == <<nonCallVars, val, fp, res, gen, ev, event, sync, br>>
nonSyncVars == <<nonCallVars, val, fp, res, gen, ev, event, rx, br>>
nonBrVars == <<nonCallVars, val, fp, res, gen, ev, event, rx, sync>>

vars == <<handlerVars, otherVars>>

----
\* Map.prototype.* on an inner Map, kept as a set of <<key, value>> entries.

MapHas(m, k) == \E e \in m : e[1] = k

MapGet(m, k) == IF MapHas(m, k) THEN (CHOOSE e \in m : e[1] = k)[2] ELSE Undefined

\* Variant of MapSet that registers a token only when the key has none.
MapSetIfAbsent(m, k, v) == IF MapHas(m, k) THEN m ELSE m \cup {<<k, v>>}

MapSet(m, k, v) == {e \in m : e[1] # k} \cup {<<k, v>>}

\* Variant of MapDelete that forgets the cleanup.
MapDeleteNothing(m, k) == m

MapDelete(m, k) == {e \in m : e[1] # k}

MapSize(m) == Cardinality(m)

\* Line 227: agentResponses.get(message.roomId), read through the inner Map
\* reference the invocation took at line 198.
HeldToken(h) ==
    IF agentResponses[h] = NoRef THEN Undefined
    ELSE MapGet(maps[agentResponses[h]], message[h].roomId)

\* const responseId = v4(): a value no other invocation gets.
v4(h) == h

\* The live token of (agent, room) as a reader of latestResponseIds sees it.
LiveToken(a, r) ==
    IF latestResponseIds[a] = NoRef THEN Undefined
    ELSE MapGet(maps[latestResponseIds[a]], r)

Started == {h \in Handlers : pc[h] # "idle"}
UsedRooms == {message[h].roomId : h \in Started}
RECURSIVE SetMax(_)
SetMax(S) == IF S = {} THEN 0
             ELSE LET x == CHOOSE y \in S : TRUE
                      m == SetMax(S \ {x})
                  IN IF x > m THEN x ELSE m

\* The module as loaded: no invocation of messageReceivedHandler yet.
HandlerInit ==
    /\ latestResponseIds = [a \in Agents |-> NoRef]
    /\ maps = [m \in MapRefs |-> {}]
    /\ pc = [h \in Handlers |-> "idle"]
    /\ message = [h \in Handlers |-> NoMessage]
    /\ responseId = [h \in Handlers |-> Undefined]
    /\ agentResponses = [h \in Handlers |-> NoRef]
    /\ shouldRespond = [h \in Handlers |-> "unset"]
    /\ responseContent = [h \in Handlers |-> "unset"]
    /\ persisted = [h \in Handlers |-> "unset"]
    /\ stale = [h \in Handlers |-> FALSE]
    /\ calls = [h \in Handlers |-> NoCalls]

\* No call of checkShouldRespond is followed on its own.
CsrIdle ==
    [pc |-> "idle", userId |-> "none", text |-> <<>>, agentUserState |-> "NONE",
     response |-> {}, result |-> "unset", TEXT_SMALL |-> 0]

----
\* The data of the reflection evaluator (evaluators/reflection.ts).

\* The passes that can be followed: SpecReflection starts MaxPasses of
\* them, SpecReflectionWide one more.
Passes == 1..(MaxPasses + 1)
\* The message of the checkpoint an earlier pass may have left.
EarlierMessage == 1
\* All passes are triggered by messages of one room.
ReflectionRoom == 1
\* getCache answers undefined for a key never set.
NoCheckpoint == 0

Rep(c, n) == [i \in 1..n |-> c]
\* A UUID string whose hexadecimal digits are all c.
Uuid(c) ==
    Rep(c, 8) \o <<"-">> \o Rep(c, 4) \o <<"-">> \o Rep(c, 4) \o <<"-">>
        \o Rep(c, 4) \o <<"-">> \o Rep(c, 12)

\* getEntityDetails({ runtime, roomId }): the entities of the room.
Entities ==
    << [id |-> Uuid("a"), names |-> << <<"A", "l">> >>],
       [id |-> Uuid("b"), names |-> << <<"B", "o">> >>],
       [id |-> Uuid("c"), names |-> << <<"C", "y">> >>] >>

\* message.entityId of the triggering messages.
Senders == {Uuid("a"), Uuid("c")}

\* metadata?.interactions of an edge that has none.
NoInteractions == -1
\* relationship.metadata of an extracted relationship that has none.
NoMetadata == [interactions |-> NoInteractions]

\* The relationships an extraction can list (relationshipSchema).
RelInputs ==
    { [sourceEntityId |-> Uuid("a"), targetEntityId |-> Uuid("b"),
       tags |-> <<"x">>, metadata |-> NoMetadata],
      [sourceEntityId |-> <<"a", "l">>, targetEntityId |-> Uuid("b"),
       tags |-> <<"y">>, metadata |-> NoMetadata],
      [sourceEntityId |-> Uuid("a"), targetEntityId |-> Uuid("b"),
       tags |-> <<"x">>, metadata |-> [interactions |-> 5]],
      [sourceEntityId |-> Uuid("a"), targetEntityId |-> <<"z", "z">>,
       tags |-> <<"x">>, metadata |-> NoMetadata],
      [sourceEntityId |-> <<"z", "z">>, targetEntityId |-> Uuid("b"),
       tags |-> <<"x">>, metadata |-> NoMetadata] }

\* The facts an extraction can list (reflectionSchema.facts).
FactInputs ==
    { [claim |-> <<"c">>, in_bio |-> FALSE, already_known |-> FALSE],
      [claim |-> <<" ">>, in_bio |-> FALSE, already_known |-> FALSE],
      [claim |-> <<"c">>, in_bio |-> TRUE, already_known |-> FALSE],
      [claim |-> <<"c">>, in_bio |-> FALSE, already_known |-> TRUE] }

RECURSIVE SeqsUpTo(_, _)
SeqsUpTo(S, n) ==
    IF n = 0 THEN {<<>>}
    ELSE LET shorter == SeqsUpTo(S, n - 1)
         IN shorter \cup {Append(t, x) : t \in {u \in shorter : Len(u) = n - 1},
                                           x \in S}

\* The facts lists an extraction can hold.
FactLists == SeqsUpTo(FactInputs, MaxFacts)

\* What the model's text is to generateObject: empty (line 224), text
\* that JSON.parse rejects (line 231), JSON that reflectionSchema rejects
\* (line 235), or JSON that it accepts.
OutputKinds == {"empty", "unparsable", "schemaInvalid", "valid"}

\* An edge some other writer stored for the pair a -> b, without a counter.
SeedEdge ==
    [id |-> 1, sourceEntityId |-> Uuid("a"), targetEntityId |-> Uuid("b"),
     tags |-> <<"x">>, interactions |-> NoInteractions]

NoWrite == [op |-> "none", edge |-> SeedEdge]
NoRelationship == [sourceEntityId |-> <<>>, targetEntityId |-> <<>>,
                   tags |-> <<>>, metadata |-> NoMetadata]
NoWrites == [facts |-> 0, created |-> 0, updated |-> 0, checkpoint |-> 0]

PassIdle ==
    [pc |-> "idle",
     message |-> [id |-> 0, entityId |-> <<>>, roomId |-> 0],
     existingRelationships |-> <<>>,
     output |-> "none",
     reflection |-> "unset",
     newFacts |-> <<>>,
     relationship |-> NoRelationship,
     processed |-> 0,
     skipped |-> 0,
     write |-> NoWrite,
     wrote |-> NoWrites]

ResolvedPairs == {<<Uuid("a"), Uuid("b")>>}

\* No reflection pass is followed.
ReflectionIdle ==
    /\ relationships = <<>>
    /\ initialRelationships = <<>>
    /\ facts = <<>>
    /\ cache = [r \in Rooms |-> NoCheckpoint]
    /\ pass = [p \in Passes |-> PassIdle]
    /\ observed = [pr \in ResolvedPairs |-> [n |-> 0, tags |-> {}]]

\* No call of validate is followed.
ValIdle ==
    [pc |-> "idle", conversationLength |-> 0, history |-> 0, checkpoint |-> 0,
     lastMessageId |-> 0, messages |-> <<>>, reflectionInterval |-> 0,
     result |-> "unset"]

\* No pass's fact writes are followed.
FpIdle ==
    [pc |-> "idle", extracted |-> <<>>, newFacts |-> <<>>, progress |-> <<>>,
     factMemory |-> <<>>, stored |-> <<>>]

\* No call of resolveEntity is followed.
ResIdle ==
    [pc |-> "idle", entityId |-> <<>>, entities |-> <<>>, threw |-> FALSE,
     value |-> <<>>]

\* No call of generateObject is followed.
GenIdle ==
    [pc |-> "idle", prompt |-> <<>>, output |-> "object", schema |-> "none",
     enumValues |-> <<>>, invoked |-> 0, response |-> <<>>, value |-> <<>>]

\* No evaluation is followed.
Evaluations == 1..MaxEvaluations
EvRunIdle == [pc |-> "idle", message |-> 0, lastMessageId |-> 0, window |-> {}]
EvIdle ==
    [conversationLength |-> 0, history |-> 0, checkpoint |-> 0,
     run |-> [e \in Evaluations |-> EvRunIdle]]

\* No event was emitted.
RxIdle == [pc |-> "idle", error |-> "none", createMemory |-> 0]
\* No call of createBranch is followed.
BrIdle == [pc |-> "idle", requests |-> <<>>, answers |-> <<>>, result |-> "none"]

\* No server sync is followed.
SyncIdle ==
    [pc |-> "idle", rooms |-> 0, users |-> <<>>, ensured |-> 0, i |-> 0,
     attempted |-> {}, settled |-> {}, failed |-> {}, caught |-> "nothing"]
EventsIdle ==
    /\ event = [h \in Handlers |-> "none"]
    /\ rx = RxIdle
    /\ sync = SyncIdle
    /\ br = BrIdle

CallsIdle ==
    /\ val = ValIdle
    /\ fp = FpIdle
    /\ res = ResIdle
    /\ gen = GenIdle
    /\ ev = EvIdle
    /\ EventsIdle

Init ==
    /\ HandlerInit
    /\ csr = CsrIdle
    /\ ReflectionIdle
    /\ CallsIdle

----
\* Variant of EarlyOut without the FOLLOWED early-out.
EarlyOutNoFollowed(agentUserState, mentions) ==
    IF agentUserState = "MUTED" /\ ~mentions THEN "false"
    ELSE IF mentions THEN "true"
    ELSE "model"

\* checkShouldRespond, lines 114-134: the early-outs taken once the
\* participation state is known; "model" when none applies.
EarlyOut(agentUserState, mentions) ==
    IF agentUserState = "MUTED" /\ ~mentions THEN "false"
    ELSE IF agentUserState = "FOLLOWED" THEN "true"
    ELSE IF mentions THEN "true"
    ELSE "model"

\* Variant of Verdict that looks for IGNORE and STOP first.
VerdictIgnoreFirst(response) ==
    IF "IGNORE" \in response THEN FALSE
    ELSE IF "STOP" \in response THEN FALSE
    ELSE IF "RESPOND" \in response THEN TRUE
    ELSE FALSE

\* checkShouldRespond, lines 170-182: the verdict read off the model's text,
\* given the keywords that text contains.
Verdict(response) ==
    IF "RESPOND" \in response THEN TRUE
    ELSE IF "IGNORE" \in response THEN FALSE
    ELSE IF "STOP" \in response THEN FALSE
    ELSE FALSE

\* Variant of SaveIncoming that skips the agent's own messages.
SaveIncomingUnlessOwn(c, msg) ==
    IF msg.kind = "own" THEN c
    ELSE [c EXCEPT !.addEmbeddingToMemory = @ + 1, !.createMemory = @ + 1]

\* Lines 204-207: both persistence calls of the inbound message are issued.
SaveIncoming(c, msg) ==
    [c EXCEPT !.addEmbeddingToMemory = @ + 1, !.createMemory = @ + 1]

\* Variant of EntersGeneration that generates whatever the predicate said.
EntersGenerationAlways(sr) == sr \in {"true", "false"}

\* Line 212: if (shouldRespond).
EntersGeneration(sr) == sr = "true"

\* Lines 193-207: mint the token, register it, issue the persistence of the
\* inbound message and suspend on it.  Invocations start in index order and
\* rooms are numbered in order of first use.
MintToken(h, r, k) ==
    /\ pc[h] = "idle"
    /\ \A g \in Handlers : g < h => pc[g] # "idle"
    /\ r <= SetMax(UsedRooms) + 1
    /\ LET ref == IF latestResponseIds[AgentId] = NoRef
                  THEN h   \* new Map(): a reference nobody holds yet
                  ELSE latestResponseIds[AgentId]
       IN /\ latestResponseIds' = [latestResponseIds EXCEPT ![AgentId] = ref]
          /\ agentResponses' = [agentResponses EXCEPT ![h] = ref]
          /\ maps' = [maps EXCEPT ![ref] = MapSet(@, r, v4(h))]
    /\ responseId' = [responseId EXCEPT ![h] = v4(h)]
    /\ message' = [message EXCEPT ![h] = [roomId |-> r, kind |-> k]]
    /\ calls' = [calls EXCEPT ![h] = SaveIncoming(@, [roomId |-> r, kind |-> k])]
    /\ pc' = [pc EXCEPT ![h] = "awaitPersist"]
    /\ UNCHANGED <<shouldRespond, responseContent, persisted, stale>>

\* Lines 187-207: one invocation of messageReceivedHandler starts.
Mint(h, r, k) ==
    /\ MintToken(h, r, k)
    /\ UNCHANGED otherVars

\* Line 204: the Promise.all rejects; the handler has no try/catch, so the
\* invocation ends with that rejection.
PersistFails(h) ==
    /\ pc[h] = "awaitPersist"
    /\ persisted' = [persisted EXCEPT ![h] = "failed"]
    /\ pc' = [pc EXCEPT ![h] = "rejected"]
    /\ UNCHANGED <<latestResponseIds, maps, message, responseId, agentResponses,
                   shouldRespond, responseContent, stale, calls>>

    /\ UNCHANGED otherVars
\* Lines 204-209 and 107-112: persistence settled, checkShouldRespond is
\* entered; the agent's own message returns false at once (and line 211
\* issues composeState), any other message asks for the participation state.
PersistSettles(h) ==
    /\ pc[h] = "awaitPersist"
    /\ persisted' = [persisted EXCEPT ![h] = "ok"]
    /\ calls' = [calls EXCEPT ![h].checkShouldRespond = @ + 1]
    /\ IF message[h].kind = "own"
       THEN /\ shouldRespond' = [shouldRespond EXCEPT ![h] = "false"]
            /\ pc' = [pc EXCEPT ![h] = "awaitComposeState"]
       ELSE /\ pc' = [pc EXCEPT ![h] = "awaitUserState"]
            /\ UNCHANGED shouldRespond
    /\ UNCHANGED <<latestResponseIds, maps, message, responseId, agentResponses,
                   responseContent, stale>>

    /\ UNCHANGED otherVars
\* Lines 109-143: getParticipantUserState answered; an early-out decides, or
\* the context queries of the Promise.all of line 136 are issued.
UserStateReturns(h, agentUserState) ==
    /\ pc[h] = "awaitUserState"
    /\ LET out == EarlyOut(agentUserState, message[h].kind = "mention")
       IN IF out = "model"
          THEN /\ pc' = [pc EXCEPT ![h] = "awaitContext"]
               /\ UNCHANGED shouldRespond
          ELSE /\ shouldRespond' = [shouldRespond EXCEPT ![h] = out]
               /\ pc' = [pc EXCEPT ![h] = "awaitComposeState"]
    /\ UNCHANGED <<latestResponseIds, maps, message, responseId, agentResponses,
                   responseContent, persisted, stale, calls>>

    /\ UNCHANGED otherVars
\* Lines 136-168: context loaded, the prompt is composed and TEXT_SMALL is
\* invoked.
ContextReturns(h) ==
    /\ pc[h] = "awaitContext"
    /\ calls' = [calls EXCEPT ![h].TEXT_SMALL = @ + 1]
    /\ pc' = [pc EXCEPT ![h] = "awaitSmallModel"]
    /\ UNCHANGED <<latestResponseIds, maps, message, responseId, agentResponses,
                   shouldRespond, responseContent, persisted, stale>>

    /\ UNCHANGED otherVars
\* Lines 166-183 and 211: the model answered; the verdict is returned and
\* composeState is issued.
SmallModelReturns(h, response) ==
    /\ pc[h] = "awaitSmallModel"
    /\ shouldRespond' = [shouldRespond EXCEPT ![h] =
                            IF Verdict(response) THEN "true" ELSE "false"]
    /\ pc' = [pc EXCEPT ![h] = "awaitComposeState"]
    /\ UNCHANGED <<latestResponseIds, maps, message, responseId, agentResponses,
                   responseContent, persisted, stale, calls>>

    /\ UNCHANGED otherVars
\* Lines 166, 220: runtime.useModel rejects; nothing catches it.
ModelFails(h) ==
    /\ pc[h] \in {"awaitSmallModel", "awaitLargeModel"}
    /\ pc' = [pc EXCEPT ![h] = "rejected"]
    /\ UNCHANGED <<latestResponseIds, maps, message, responseId, agentResponses,
                   shouldRespond, responseContent, persisted, stale, calls>>

    /\ UNCHANGED otherVars
\* Lines 211-222 and 260: composeState answered; generation is started when
\* shouldRespond, else the evaluators are called.
ComposeStateReturns(h) ==
    /\ pc[h] = "awaitComposeState"
    /\ IF EntersGeneration(shouldRespond[h])
       THEN /\ calls' = [calls EXCEPT ![h].TEXT_LARGE = @ + 1]
            /\ pc' = [pc EXCEPT ![h] = "awaitLargeModel"]
       ELSE /\ calls' = [calls EXCEPT ![h].evaluate = @ + 1]
            /\ pc' = [pc EXCEPT ![h] = "awaitEvaluate"]
    /\ UNCHANGED <<latestResponseIds, maps, message, responseId, agentResponses,
                   shouldRespond, responseContent, persisted, stale>>

    /\ UNCHANGED otherVars
\* Lines 220-249: the generation returned and was parsed (content is "object"
\* or "null"); the live token is compared; a stale invocation returns; a
\* fresh one writes responseContent.text (a TypeError on null, which nothing
\* catches) and issues the second composeState.
LargeModelReturns(h, content) ==
    /\ pc[h] = "awaitLargeModel"
    /\ responseContent' = [responseContent EXCEPT ![h] = content]
    /\ LET currentResponseId == MapGet(maps[agentResponses[h]], message[h].roomId)
       IN IF currentResponseId # responseId[h]
          THEN /\ stale' = [stale EXCEPT ![h] = TRUE]
               /\ pc' = [pc EXCEPT ![h] = "returned"]
          ELSE /\ UNCHANGED stale
               /\ pc' = [pc EXCEPT ![h] =
                            IF content = "null" THEN "rejected"
                            ELSE "awaitComposeState2"]
    /\ UNCHANGED <<latestResponseIds, maps, message, responseId, agentResponses,
                   shouldRespond, persisted, calls>>

    /\ UNCHANGED otherVars
\* Variant of ComposeState2Returns that runs the evaluators before the
\* dispatch.
ComposeState2ReturnsEvaluateFirst(h) ==
    /\ pc[h] = "awaitComposeState2"
    /\ LET m == MapDelete(maps[agentResponses[h]], message[h].roomId)
       IN /\ maps' = [maps EXCEPT ![agentResponses[h]] = m]
          /\ latestResponseIds' =
                IF MapSize(m) = 0
                THEN [latestResponseIds EXCEPT ![AgentId] = NoRef]
                ELSE latestResponseIds
    /\ calls' = [calls EXCEPT ![h].evaluate = @ + 1]
    /\ pc' = [pc EXCEPT ![h] = "awaitEvaluate"]
    /\ UNCHANGED <<message, responseId, agentResponses, shouldRespond,
                   responseContent, persisted, stale>>

    /\ UNCHANGED otherVars
\* Lines 249-257: the second composeState answered; the room's entry is
\* deleted from the inner Map this invocation holds, an emptied inner Map is
\* removed from latestResponseIds, and processActions is called.
ComposeState2Returns(h) ==
    /\ pc[h] = "awaitComposeState2"
    /\ LET m == MapDelete(maps[agentResponses[h]], message[h].roomId)
       IN /\ maps' = [maps EXCEPT ![agentResponses[h]] = m]
          /\ latestResponseIds' =
                IF MapSize(m) = 0
                THEN [latestResponseIds EXCEPT ![AgentId] = NoRef]
                ELSE latestResponseIds
    /\ calls' = [calls EXCEPT ![h].processActions = @ + 1]
    /\ pc' = [pc EXCEPT ![h] = "awaitProcessActions"]
    /\ UNCHANGED <<message, responseId, agentResponses, shouldRespond,
                   responseContent, persisted, stale>>

    /\ UNCHANGED otherVars
\* Lines 257-260: processActions answered; the evaluators are called.
ProcessActionsReturns(h) ==
    /\ pc[h] = "awaitProcessActions"
    /\ calls' = [calls EXCEPT ![h].evaluate = @ + 1]
    /\ pc' = [pc EXCEPT ![h] = "awaitEvaluate"]
    /\ UNCHANGED <<latestResponseIds, maps, message, responseId, agentResponses,
                   shouldRespond, responseContent, persisted, stale>>

    /\ UNCHANGED otherVars
\* Lines 260-261: runtime.evaluate answered; the handler returns.
EvaluateReturns(h) ==
    /\ pc[h] = "awaitEvaluate"
    /\ pc' = [pc EXCEPT ![h] = "returned"]
    /\ UNCHANGED <<latestResponseIds, maps, message, responseId, agentResponses,
                   shouldRespond, responseContent, persisted, stale, calls>>

    /\ UNCHANGED otherVars
\* Line 260: runtime.evaluate rejects (a failure inside an evaluator); the
\* handler has no try/catch, so the invocation ends with that rejection.
EvaluateFails(h) ==
    /\ pc[h] = "awaitEvaluate"
    /\ pc' = [pc EXCEPT ![h] = "rejected"]
    /\ UNCHANGED <<latestResponseIds, maps, message, responseId, agentResponses,
                   shouldRespond, responseContent, persisted, stale, calls>>

    /\ UNCHANGED otherVars
Next ==
    \/ \E h \in 1..MaxHandlers, r \in Rooms, k \in MessageKinds : Mint(h, r, k)
    \/ \E h \in Handlers : PersistFails(h)
    \/ \E h \in Handlers : PersistSettles(h)
    \/ \E h \in Handlers, s \in UserStates : UserStateReturns(h, s)
    \/ \E h \in Handlers : ContextReturns(h)
    \/ \E h \in Handlers, t \in SUBSET Keywords : SmallModelReturns(h, t)
    \/ \E h \in Handlers : ModelFails(h)
    \/ \E h \in Handlers : ComposeStateReturns(h)
    \/ \E h \in Handlers, c \in {"object", "null"} : LargeModelReturns(h, c)
    \/ \E h \in Handlers : ComposeState2Returns(h)
    \/ \E h \in Handlers : ProcessActionsReturns(h)
    \/ \E h \in Handlers : EvaluateReturns(h)
    \/ \E h \in Handlers : EvaluateFails(h)

Spec == Init /\ [][Next]_vars

\* The same handlers with one more invocation started.
NextWide ==
    \/ \E h \in Handlers, r \in Rooms, k \in MessageKinds : Mint(h, r, k)
    \/ \E h \in Handlers : PersistFails(h)
    \/ \E h \in Handlers : PersistSettles(h)
    \/ \E h \in Handlers, s \in UserStates : UserStateReturns(h, s)
    \/ \E h \in Handlers : ContextReturns(h)
    \/ \E h \in Handlers, t \in SUBSET Keywords : SmallModelReturns(h, t)
    \/ \E h \in Handlers : ModelFails(h)
    \/ \E h \in Handlers : ComposeStateReturns(h)
    \/ \E h \in Handlers, c \in {"object", "null"} : LargeModelReturns(h, c)
    \/ \E h \in Handlers : ComposeState2Returns(h)
    \/ \E h \in Handlers : ProcessActionsReturns(h)
    \/ \E h \in Handlers : EvaluateReturns(h)
    \/ \E h \in Handlers : EvaluateFails(h)

SpecWide == Init /\ [][NextWide]_vars

----
\* checkShouldRespond on texts.  A string is a sequence of characters.

Chars == {"s", "S", "x"}
\* runtime.character.name
CharacterName == <<"S", "x">>

RECURSIVE StringsUpTo(_)
StringsUpTo(n) ==
    IF n = 0 THEN {<<>>}
    ELSE LET shorter == StringsUpTo(n - 1)
         IN shorter \cup {Append(t, c) : t \in {u \in shorter : Len(u) = n - 1},
                                           c \in Chars}
Texts == StringsUpTo(MaxTextLen)

\* String.prototype.toLowerCase
LowerChar(c) ==
    CASE c = "A" -> "a" [] c = "B" -> "b" [] c = "C" -> "c" [] c = "D" -> "d"
      [] c = "E" -> "e" [] c = "F" -> "f" [] c = "L" -> "l" [] c = "O" -> "o"
      [] c = "S" -> "s" [] c = "X" -> "x" [] c = "Z" -> "z"
      [] OTHER -> c
ToLowerCase(str) == [i \in 1..Len(str) |-> LowerChar(str[i])]

\* String.prototype.includes
Includes(str, sub) ==
    \E i \in 0..(Len(str) - Len(sub)) : SubSeq(str, i + 1, i + Len(sub)) = sub

\* Variant of MentionsName that compares the text as written.
MentionsNameCaseSensitive(text, name) == Includes(text, name)

\* Lines 116-118 and 129-131:
\* message.content.text.toLowerCase().includes(name.toLowerCase()).
MentionsName(text, name) == Includes(ToLowerCase(text), ToLowerCase(name))

\* The calls checkShouldRespond can receive and the answers its
\* collaborators can give to them.
CsrCalls ==
    [pc : {"called"}, userId : {"agent", "user"}, text : Texts,
     agentUserState : UserStates, response : SUBSET Keywords,
     result : {"unset"}, TEXT_SMALL : {0}]

CsrInit ==
    /\ HandlerInit
    /\ csr \in CsrCalls
    /\ ReflectionIdle
    /\ CallsIdle

\* Lines 107-112: the agent's own message returns false; any other asks for
\* the participation state.
CsrEnter ==
    /\ csr.pc = "called"
    /\ csr' = IF csr.userId = "agent"
              THEN [csr EXCEPT !.result = "false", !.pc = "returned"]
              ELSE [csr EXCEPT !.pc = "awaitUserState"]
    /\ UNCHANGED nonCsrVars

\* Lines 109-143: getParticipantUserState answered; an early-out returns, or
\* the context queries are issued.
CsrUserStateReturns ==
    /\ csr.pc = "awaitUserState"
    /\ LET out == EarlyOut(csr.agentUserState,
                           MentionsName(csr.text, CharacterName))
       IN csr' = IF out = "model"
                 THEN [csr EXCEPT !.pc = "awaitContext"]
                 ELSE [csr EXCEPT !.result = out, !.pc = "returned"]
    /\ UNCHANGED nonCsrVars

\* Lines 136-168: context loaded, TEXT_SMALL is invoked.
CsrContextReturns ==
    /\ csr.pc = "awaitContext"
    /\ csr' = [csr EXCEPT !.TEXT_SMALL = @ + 1, !.pc = "awaitSmallModel"]
    /\ UNCHANGED nonCsrVars

\* Lines 166-183: the model answered; its verdict is returned.
CsrSmallModelReturns ==
    /\ csr.pc = "awaitSmallModel"
    /\ csr' = [csr EXCEPT
                 !.result = IF Verdict(csr.response) THEN "true" ELSE "false",
                 !.pc = "returned"]
    /\ UNCHANGED nonCsrVars

CsrNext ==
    \/ CsrEnter
    \/ CsrUserStateReturns
    \/ CsrContextReturns
    \/ CsrSmallModelReturns

SpecShouldRespond == CsrInit /\ [][CsrNext]_vars

----
\* The reflection evaluator: evaluators/reflection.ts.

HexDigits ==
    {"0", "1", "2", "3", "4", "5", "6", "7", "8", "9",
     "a", "b", "c", "d", "e", "f", "A", "B", "C", "D", "E", "F"}

\* Lines 121-125: /^[0-9a-f]{8}-[0-9a-f]{4}-[0-9a-f]{4}-[0-9a-f]{4}-[0-9a-f]{12}$/i
IsUuid(entityId) ==
    /\ Len(entityId) = 36
    /\ \A i \in 1..36 :
          IF i \in {9, 14, 19, 24} THEN entityId[i] = "-"
          ELSE entityId[i] \in HexDigits

\* Array.prototype.find, given for each element whether the callback
\* accepts it: the index of the first accepted element, 0 when there is
\* none.
FindIndex(accepted) ==
    IF \E i \in 1..Len(accepted) : accepted[i]
    THEN CHOOSE i \in 1..Len(accepted) :
             accepted[i] /\ \A j \in 1..(i - 1) : ~accepted[j]
    ELSE 0

\* The result of a resolveEntity call that throws (line 151).
Throws == <<>>

\* Variant of ResolveEntity that accepts an unknown identifier as it is.
ResolveEntityAsIs(entityId, entities) == entityId

\* Variant of ResolveEntity that tries the names before the partial ids.
ResolveEntityNameFirst(entityId, entities) ==
    LET exact(a) == a.id = entityId
        partial(a) == Includes(a.id, entityId)
        named(a) == \E k \in 1..Len(a.names) :
                        Includes(ToLowerCase(a.names[k]), ToLowerCase(entityId))
        byId == FindIndex([i \in 1..Len(entities) |-> exact(entities[i])])
        byPartialId == FindIndex([i \in 1..Len(entities) |-> partial(entities[i])])
        byName == FindIndex([i \in 1..Len(entities) |-> named(entities[i])])
    IN  IF IsUuid(entityId) THEN entityId
        ELSE IF byId # 0 THEN entities[byId].id
        ELSE IF byName # 0 THEN entities[byName].id
        ELSE IF byPartialId # 0 THEN entities[byPartialId].id
        ELSE Throws

\* Variant of ResolveEntity that accepts a UUID only if an entity has it.
ResolveEntityKnownOnly(entityId, entities) ==
    LET exact(a) == a.id = entityId
        partial(a) == Includes(a.id, entityId)
        named(a) == \E k \in 1..Len(a.names) :
                        Includes(ToLowerCase(a.names[k]), ToLowerCase(entityId))
        byId == FindIndex([i \in 1..Len(entities) |-> exact(entities[i])])
        byPartialId == FindIndex([i \in 1..Len(entities) |-> partial(entities[i])])
        byName == FindIndex([i \in 1..Len(entities) |-> named(entities[i])])
    IN  IF byId # 0 THEN entities[byId].id
        ELSE IF byPartialId # 0 THEN entities[byPartialId].id
        ELSE IF byName # 0 THEN entities[byName].id
        ELSE Throws

\* Lines 119-152.
ResolveEntity(entityId, entities) ==
    LET exact(a) == a.id = entityId
        partial(a) == Includes(a.id, entityId)
        named(a) == \E k \in 1..Len(a.names) :
                        Includes(ToLowerCase(a.names[k]), ToLowerCase(entityId))
        byId == FindIndex([i \in 1..Len(entities) |-> exact(entities[i])])
        byPartialId == FindIndex([i \in 1..Len(entities) |-> partial(entities[i])])
        byName == FindIndex([i \in 1..Len(entities) |-> named(entities[i])])
    IN  IF IsUuid(entityId) THEN entityId
        ELSE IF byId # 0 THEN entities[byId].id
        ELSE IF byPartialId # 0 THEN entities[byPartialId].id
        ELSE IF byName # 0 THEN entities[byName].id
        ELSE Throws

\* Lines 328-329: the endpoints of every relationship an extraction can
\* list, resolved against the entities of the room.
Resolved ==
    [rel \in RelInputs |->
        [sourceId |-> ResolveEntity(rel.sourceEntityId, Entities),
         targetId |-> ResolveEntity(rel.targetEntityId, Entities)]]

\* Lines 327-334: both endpoints resolve.
Resolves(relationship) ==
    /\ Resolved[relationship].sourceId # Throws
    /\ Resolved[relationship].targetId # Throws

\* The entries a loop iteration can find next in reflection.relationships.
Unresolvable == {rel \in RelInputs : ~Resolves(rel)}
Resolvable == RelInputs \ Unresolvable

\* Array.from(new Set(seq)): the elements in the order of first occurrence.
RECURSIVE Unique(_)
Unique(seq) ==
    IF seq = <<>> THEN <<>>
    ELSE LET front == Unique(SubSeq(seq, 1, Len(seq) - 1))
             last == seq[Len(seq)]
         IN IF \E i \in 1..Len(front) : front[i] = last THEN front
            ELSE Append(front, last)

Range(seq) == {seq[i] : i \in 1..Len(seq)}

\* The relationship store (the database adapter).
\* getRelationships({ entityId }): the stored edges that have the entity at
\* one end.
GetRelationships(entityId) ==
    LET touches(r) == r.sourceEntityId = entityId \/ r.targetEntityId = entityId
    IN  SelectSeq(relationships, touches)

\* createRelationship(edge): one more stored edge, under a new id.
CreateRelationship(store, edge) ==
    Append(store, [edge EXCEPT !.id = Len(store) + 1])

\* updateRelationship(edge): the stored edge of that id is written over.
UpdateRelationship(store, edge) ==
    [i \in 1..Len(store) |-> IF store[i].id = edge.id THEN edge ELSE store[i]]

\* Lines 213-243 of generateObject in object mode with reflectionSchema:
\* what the caller gets for each kind of model output.
GenerateObjectUnvalidated(kind) ==
    IF kind \in {"valid", "schemaInvalid"} THEN "object" ELSE "null"

GenerateObject(kind) ==
    IF kind = "valid" THEN "object" ELSE "null"

\* String.prototype.trim() leaves nothing.
IsBlank(str) == \A i \in 1..Len(str) : str[i] = " "

\* Variant of NewFacts that does not look at in_bio.
NewFactsWithBio(extracted) ==
    LET keep(fact) ==
            /\ ~fact.already_known
            /\ fact.claim # <<>>
            /\ ~IsBlank(fact.claim)
    IN  SelectSeq(extracted, keep)

\* Lines 300-307: the facts that are persisted.
NewFacts(extracted) ==
    LET keep(fact) ==
            /\ ~fact.already_known
            /\ ~fact.in_bio
            /\ fact.claim # <<>>
            /\ ~IsBlank(fact.claim)
    IN  SelectSeq(extracted, keep)

\* Lines 336-338: existingRelationships.find, 0 for undefined.
FindExisting(existingRelationships, sourceId, targetId) ==
    LET same(r) == r.sourceEntityId = sourceId /\ r.targetEntityId = targetId
    IN  FindIndex([i \in 1..Len(existingRelationships) |-> same(existingRelationships[i])])

\* Variant of CreatedInteractions that lets nothing override the 1.
CreatedInteractionsOne(metadata) == 1

\* Lines 360-363: { interactions: 1, ...relationship.metadata }.interactions
CreatedInteractions(metadata) ==
    IF metadata.interactions # NoInteractions THEN metadata.interactions ELSE 1

\* Line 343: (existingRelationship.metadata?.interactions || 0) + 1
UpdatedInteractions(existing) ==
    (IF existing.interactions = NoInteractions THEN 0 ELSE existing.interactions) + 1

\* Lines 340-365: the write one loop iteration asks the store for.
WriteFor(relationship, existingRelationships) ==
    LET sourceId == Resolved[relationship].sourceId
        targetId == Resolved[relationship].targetId
        found == FindExisting(existingRelationships, sourceId, targetId)
        existingRelationship == existingRelationships[found]
    IN  IF found # 0
        THEN [op |-> "update",
              edge |-> [existingRelationship EXCEPT
                          !.tags = Unique(existingRelationship.tags \o relationship.tags),
                          !.interactions = UpdatedInteractions(existingRelationship)]]
        ELSE [op |-> "create",
              edge |-> [id |-> 0,
                        sourceEntityId |-> sourceId,
                        targetEntityId |-> targetId,
                        tags |-> relationship.tags,
                        interactions |-> CreatedInteractions(relationship.metadata)]]

\* Lines 323-366, from the return of one await to the next: the loop skips
\* `skip` entries that do not resolve (continue, line 333) and then either
\* reaches the entry `next` and asks for its write, or, with next =
\* NoRelationship, the end of the list and asks for the checkpoint write.
\* The entries are drawn when the loop reaches them: nothing else reads
\* the list.
\* Variant of Advance without the try/catch of lines 327-334: an entry
\* that does not resolve ends the pass.
AdvanceUncaught(ps, skip, next) ==
    IF skip > 0
    THEN [ps EXCEPT !.pc = "rejected",
                    !.processed = @ + 1,
                    !.skipped = @ + 1,
                    !.existingRelationships = <<>>,
                    !.relationship = NoRelationship,
                    !.write = NoWrite]
    ELSE IF next = NoRelationship
    THEN [ps EXCEPT !.pc = "awaitSetCache",
                    !.relationship = NoRelationship,
                    !.write = NoWrite]
    ELSE [ps EXCEPT !.pc = "awaitRelationshipWrite",
                    !.processed = @ + 1,
                    !.relationship = next,
                    !.write = WriteFor(next, ps.existingRelationships)]

Advance(ps, skip, next) ==
    IF next = NoRelationship
    THEN [ps EXCEPT !.pc = "awaitSetCache",
                    !.processed = @ + skip,
                    !.skipped = @ + skip,
                    !.relationship = NoRelationship,
                    !.write = NoWrite]
    ELSE [ps EXCEPT !.pc = "awaitRelationshipWrite",
                    !.processed = @ + skip + 1,
                    !.skipped = @ + skip,
                    !.relationship = next,
                    !.write = WriteFor(next, ps.existingRelationships)]

RECURSIVE SumUpTo(_, _)
SumUpTo(f, n) == IF n = 0 THEN 0 ELSE f[n] + SumUpTo(f, n - 1)
\* The entries of relationships lists read so far, and the facts kept so
\* far, over all passes.
EntriesRead == SumUpTo([q \in Passes |-> pass[q].processed], MaxPasses + 1)
FactsKept == SumUpTo([q \in Passes |-> Len(pass[q].newFacts)], MaxPasses + 1)

\* The lists of all passes together hold at most MaxRels entries.
CanAdvance(ps, skip, next) ==
    /\ skip \in 0..MaxRels
    /\ skip > 0 => Unresolvable # {}
    /\ next \in Resolvable \cup {NoRelationship}
    /\ EntriesRead + skip + (IF next = NoRelationship THEN 0 ELSE 1) <= MaxRels

\* The message that triggers pass p.
TriggerOf(p, sender) == [id |-> EarlierMessage + p, entityId |-> sender, roomId |-> ReflectionRoom]

SetPass(p, ps) == pass' = [pass EXCEPT ![p] = ps]

\* The handler returns or rejects: what it loaded and the loop's locals
\* are gone.
Ends(ps, how) ==
    [ps EXCEPT !.pc = how,
               !.existingRelationships = <<>>,
               !.relationship = NoRelationship,
               !.write = NoWrite]

\* Lines 246-267: the evaluator's handler is called for a message and
\* issues its three queries.
ReflectionStart(p, sender) ==
    /\ pass[p].pc = "idle"
    /\ \A q \in 1..(p - 1) : pass[q].pc # "idle"
    /\ SetPass(p, [pass[p] EXCEPT !.pc = "awaitQueries",
                                  !.message = TriggerOf(p, sender)])
    /\ UNCHANGED <<relationships, initialRelationships, facts, cache, observed>>
    /\ UNCHANGED nonReflectionVars

\* Lines 256-292: the queries answer; the prompt is composed and
\* generateObject invokes the model (line 203).
QueriesReturn(p) ==
    /\ pass[p].pc = "awaitQueries"
    /\ SetPass(p, [pass[p] EXCEPT
                     !.pc = "awaitGenerate",
                     !.existingRelationships = GetRelationships(pass[p].message.entityId)])
    /\ UNCHANGED <<relationships, initialRelationships, facts, cache, observed>>
    /\ UNCHANGED nonReflectionVars

\* Line 256: one of the queries rejects.
QueriesFail(p) ==
    /\ pass[p].pc = "awaitQueries"
    /\ SetPass(p, Ends(pass[p], "rejected"))
    /\ UNCHANGED <<relationships, initialRelationships, facts, cache, observed>>
    /\ UNCHANGED nonReflectionVars

\* Lines 203-243 and 287-320: the model answers; generateObject returns;
\* on null the handler returns, otherwise it filters the facts and asks
\* for the fact writes. `extracted` is the facts list of an output that
\* has one.
GenerateReturns(p, kind, extracted) ==
    /\ pass[p].pc = "awaitGenerate"
    /\ kind \in OutputKinds
    /\ extracted \in FactLists
    /\ kind \in {"empty", "unparsable"} => extracted = <<>>
    /\ FactsKept + Len(NewFacts(extracted)) <= MaxFacts
    /\ LET reflection == GenerateObject(kind)
       IN  SetPass(p, IF reflection = "null"
                      THEN Ends([pass[p] EXCEPT !.output = kind,
                                                !.reflection = reflection],
                                "returned")
                      ELSE [pass[p] EXCEPT !.pc = "awaitFacts",
                                           !.output = kind,
                                           !.reflection = reflection,
                                           !.newFacts = NewFacts(extracted)])
    /\ UNCHANGED <<relationships, initialRelationships, facts, cache, observed>>
    /\ UNCHANGED nonReflectionVars

\* Line 203: the model invocation rejects, outside generateObject's try.
GenerateFails(p) ==
    /\ pass[p].pc = "awaitGenerate"
    /\ SetPass(p, Ends(pass[p], "rejected"))
    /\ UNCHANGED <<relationships, initialRelationships, facts, cache, observed>>
    /\ UNCHANGED nonReflectionVars

\* Lines 311-318: the memory stored for one fact.
FactMemory(ps, fact) ==
    [entityId |-> AgentId, agentId |-> AgentId, text |-> fact.claim,
     roomId |-> ps.message.roomId, embedded |-> TRUE]

\* Lines 309-334: every fact write settled; the loop starts.
FactsSettle(p, skip, next) ==
    /\ pass[p].pc = "awaitFacts"
    /\ CanAdvance(pass[p], skip, next)
    /\ facts' = facts \o [i \in 1..Len(pass[p].newFacts) |->
                             FactMemory(pass[p], pass[p].newFacts[i])]
    /\ SetPass(p, Advance([pass[p] EXCEPT !.wrote.facts = Len(pass[p].newFacts)],
                          skip, next))
    /\ UNCHANGED <<relationships, initialRelationships, cache, observed>>
    /\ UNCHANGED nonReflectionVars

\* Lines 309-320: a fact write rejects after `stored` of them were stored.
FactsFail(p, stored) ==
    /\ pass[p].pc = "awaitFacts"
    /\ stored \in 0..(Len(pass[p].newFacts) - 1)
    /\ facts' = facts \o [i \in 1..stored |-> FactMemory(pass[p], pass[p].newFacts[i])]
    /\ SetPass(p, Ends([pass[p] EXCEPT !.wrote.facts = stored], "rejected"))
    /\ UNCHANGED <<relationships, initialRelationships, cache, observed>>
    /\ UNCHANGED nonReflectionVars

\* The store after the write a pass asked for.
Written(store, write) ==
    IF write.op = "update"
    THEN UpdateRelationship(store, write.edge)
    ELSE CreateRelationship(store, write.edge)

Observe(obs, relationship, write) ==
    LET pair == <<write.edge.sourceEntityId, write.edge.targetEntityId>>
    IN  [obs EXCEPT ![pair] = [n |-> @.n + 1,
                               tags |-> @.tags \cup Range(relationship.tags)]]

\* Lines 350-366: updateRelationship or createRelationship answers and the
\* loop goes on.
RelationshipWriteReturns(p, skip, next) ==
    /\ pass[p].pc = "awaitRelationshipWrite"
    /\ CanAdvance(pass[p], skip, next)
    /\ relationships' = Written(relationships, pass[p].write)
    /\ observed' = Observe(observed, pass[p].relationship, pass[p].write)
    /\ SetPass(p, Advance(IF pass[p].write.op = "update"
                          THEN [pass[p] EXCEPT !.wrote.updated = @ + 1]
                          ELSE [pass[p] EXCEPT !.wrote.created = @ + 1],
                          skip, next))
    /\ UNCHANGED <<initialRelationships, facts, cache>>
    /\ UNCHANGED nonReflectionVars

\* Variant of RelationshipWriteFails in which the checkpoint is written
\* whether the write succeeded or not.
RelationshipWriteFailsCheckpointed(p) ==
    /\ pass[p].pc = "awaitRelationshipWrite"
    /\ cache' = [cache EXCEPT ![pass[p].message.roomId] = pass[p].message.id]
    /\ SetPass(p, Ends(pass[p], "rejected"))
    /\ UNCHANGED <<relationships, initialRelationships, facts, observed>>
    /\ UNCHANGED nonReflectionVars

\* Lines 350 and 356: the store rejects the write.
RelationshipWriteFails(p) ==
    /\ pass[p].pc = "awaitRelationshipWrite"
    /\ SetPass(p, Ends(pass[p], "rejected"))
    /\ UNCHANGED <<relationships, initialRelationships, facts, cache, observed>>
    /\ UNCHANGED nonReflectionVars

\* Variant of SetCacheReturns that records a checkpoint only for a pass
\* that wrote something.
SetCacheReturnsUnlessEmpty(p) ==
    /\ pass[p].pc = "awaitSetCache"
    /\ cache' = IF pass[p].wrote = NoWrites THEN cache
                ELSE [cache EXCEPT ![pass[p].message.roomId] = pass[p].message.id]
    /\ SetPass(p, Ends([pass[p] EXCEPT !.wrote.checkpoint = 1], "returned"))
    /\ UNCHANGED <<relationships, initialRelationships, facts, observed>>
    /\ UNCHANGED nonReflectionVars

\* Lines 368-375: the checkpoint is written and the handler returns.
SetCacheReturns(p) ==
    /\ pass[p].pc = "awaitSetCache"
    /\ cache' = [cache EXCEPT ![pass[p].message.roomId] = pass[p].message.id]
    /\ SetPass(p, Ends([pass[p] EXCEPT !.wrote.checkpoint = 1], "returned"))
    /\ UNCHANGED <<relationships, initialRelationships, facts, observed>>
    /\ UNCHANGED nonReflectionVars

\* Line 368: the cache rejects the write.
SetCacheFails(p) ==
    /\ pass[p].pc = "awaitSetCache"
    /\ SetPass(p, Ends(pass[p], "rejected"))
    /\ UNCHANGED <<relationships, initialRelationships, facts, cache, observed>>
    /\ UNCHANGED nonReflectionVars

\* The store holds nothing, or one edge another writer left; the
\* conversation has no checkpoint, or the one an earlier pass left.
ReflectionInit ==
    /\ HandlerInit
    /\ csr = CsrIdle
    /\ relationships \in {<<>>, <<SeedEdge>>}
    /\ initialRelationships = relationships
    /\ facts = <<>>
    /\ \E earlier \in {NoCheckpoint, EarlierMessage} :
          cache = [r \in Rooms |-> IF r = ReflectionRoom THEN earlier ELSE NoCheckpoint]
    /\ pass = [p \in Passes |-> PassIdle]
    /\ observed = [pr \in ResolvedPairs |-> [n |-> 0, tags |-> {}]]
    /\ CallsIdle

ReflectionSteps ==
    \/ \E p \in Passes : QueriesReturn(p)
    \/ \E p \in Passes : QueriesFail(p)
    \/ \E p \in Passes, kind \in OutputKinds,
          extracted \in FactLists : GenerateReturns(p, kind, extracted)
    \/ \E p \in Passes : GenerateFails(p)
    \/ \E p \in Passes, skip \in 0..MaxRels, next \in RelInputs \cup {NoRelationship} :
          FactsSettle(p, skip, next)
    \/ \E p \in Passes, stored \in 0..MaxFacts : FactsFail(p, stored)
    \/ \E p \in Passes, skip \in 0..MaxRels, next \in RelInputs \cup {NoRelationship} :
          RelationshipWriteReturns(p, skip, next)
    \/ \E p \in Passes : RelationshipWriteFails(p)
    \/ \E p \in Passes : SetCacheReturns(p)
    \/ \E p \in Passes : SetCacheFails(p)

ReflectionNext ==
    \/ \E p \in 1..MaxPasses, sender \in Senders : ReflectionStart(p, sender)
    \/ ReflectionSteps

SpecReflection == ReflectionInit /\ [][ReflectionNext]_vars

\* One more pass is started.
ReflectionNextWide ==
    \/ \E p \in Passes, sender \in Senders : ReflectionStart(p, sender)
    \/ ReflectionSteps

SpecReflectionWide == ReflectionInit /\ [][ReflectionNextWide]_vars

----
\* Vocabulary of the properties.

HandlersOf(r) == {h \in Started : message[h].roomId = r}
\* g's token was minted after h's for the same conversation.
MintedAfter(g, h) ==
    /\ g \in Started /\ h \in Started
    /\ message[g].roomId = message[h].roomId
    /\ responseId[g] > responseId[h]
LastMinted(r) == CHOOSE h \in HandlersOf(r) : \A g \in HandlersOf(r) : ~MintedAfter(g, h)
InFlight(h) == pc[h] \notin {"idle", "returned", "rejected"}
Dispatched(h) == calls[h].processActions > 0

\* C1: processActions is called for a handler only if no token has been
\* minted for its conversation after the handler's own token.
C1_DispatchOnlyLastMinted ==
    [][\A h \in Handlers :
          calls'[h].processActions > calls[h].processActions
              => ~\E g \in Handlers : MintedAfter(g, h)]_vars

\* C2: a step of a handler that is not a mint never removes or changes a live
\* token that another handler minted.
C2_ClearsOnlyOwnToken ==
    [][\A h \in Handlers :
          (pc[h] # "idle" /\ pc'[h] # pc[h])
              => \A r \in Rooms :
                    LiveToken(AgentId, r)' # LiveToken(AgentId, r)
                        => LiveToken(AgentId, r) = responseId[h]]_vars

\* C3: between a handler's successful comparison and its dispatch no mint for
\* the same conversation takes effect: while the handler is past the
\* comparison and before processActions, the live token is still its own.
C3_NoMintBetweenCompareAndDispatch ==
    \A h \in Handlers :
        pc[h] = "awaitComposeState2"
            => /\ MapGet(maps[agentResponses[h]], message[h].roomId) = responseId[h]
               /\ ~\E g \in Handlers : MintedAfter(g, h)

\* C4: an invocation whose inbound message was persisted has called the
\* evaluators exactly once when it returns.
C4_EvaluateOnEveryPath ==
    \A h \in Handlers :
        (pc[h] = "returned" /\ persisted[h] = "ok") => calls[h].evaluate = 1

\* C5: every inner Map holds at most one token per conversation, and right
\* after a handler's mint step the table holds that handler's token for its
\* conversation.
C5_MintReplaces ==
    [][/\ \A m \in MapRefs, r \in Rooms :
             Cardinality({e \in maps'[m] : e[1] = r}) <= 1
       /\ \A h \in Handlers :
             (pc[h] = "idle" /\ pc'[h] # "idle")
                 => \A r \in Rooms :
                       message'[h].roomId = r
                           => LiveToken(AgentId, r)' = responseId'[h]]_vars

C5_Witness ==
    \E h, g \in Handlers :
        /\ MintedAfter(h, g) /\ InFlight(g)
        /\ pc[h] = "awaitPersist"
        /\ LiveToken(AgentId, message[h].roomId) = responseId[h]

C7_PersistBeforePredicate ==
    \A h \in Handlers :
        /\ pc[h] # "idle"
              => calls[h].addEmbeddingToMemory = 1 /\ calls[h].createMemory = 1
        /\ calls[h].checkShouldRespond > 0
              => /\ calls[h].addEmbeddingToMemory = 1
                 /\ calls[h].createMemory = 1
                 /\ persisted[h] = "ok"

C7_Witness ==
    \E h \in Handlers :
        /\ message[h].kind = "own" /\ calls[h].checkShouldRespond = 1
        /\ shouldRespond[h] = "false" /\ calls[h].createMemory = 1

\* C8: an invocation whose inbound persistence failed has still evaluated
\* the should-respond predicate by the time it ends.
C8_PersistFailureDoesNotBlock ==
    \A h \in Handlers :
        (persisted[h] = "failed" /\ pc[h] \in {"returned", "rejected"})
            => calls[h].checkShouldRespond = 1

\* C9: a null generation result dispatches nothing, raises no error and ends
\* with the evaluators called.
C9_NullResultIsNoResponse ==
    \A h \in Handlers :
        responseContent[h] = "null"
            => /\ pc[h] # "rejected"
               /\ calls[h].processActions = 0
               /\ pc[h] = "returned" => calls[h].evaluate = 1

\* C10 as stated: once every handler started for a conversation has
\* returned, the table holds no live token for it.
C10_NoTokenAfterAllReturned ==
    \A r \in Rooms :
        (HandlersOf(r) # {} /\ \A h \in HandlersOf(r) : pc[h] = "returned")
            => LiveToken(AgentId, r) = Undefined

\* C10 amended: once every handler started for a conversation has returned
\* and the last-minted one dispatched its response, the table holds no live
\* token for it.
C10_NoTokenAfterLastDispatched ==
    \A r \in Rooms :
        (/\ HandlersOf(r) # {}
         /\ \A h \in HandlersOf(r) : pc[h] = "returned"
         /\ Dispatched(LastMinted(r)))
            => LiveToken(AgentId, r) = Undefined

C10_Witness ==
    \E r \in Rooms :
        /\ Cardinality(HandlersOf(r)) >= 2
        /\ \A h \in HandlersOf(r) : pc[h] = "returned"
        /\ Dispatched(LastMinted(r))
        /\ LiveToken(AgentId, r) = Undefined

\* C11: a step of a handler of conversation X leaves, for every started
\* handler g of another conversation Y, the live token of Y and the token g
\* reads through its own inner Map reference unchanged; and what g reads
\* through that reference decides stale/fresh exactly as the table does,
\* also after the inner Map was removed from latestResponseIds.
C11_ConversationsIndependent ==
    [][\A h \in Handlers :
          pc'[h] # pc[h]
              => \A g \in Started :
                    message[g].roomId # message'[h].roomId
                        => /\ LiveToken(AgentId, message[g].roomId)'
                                = LiveToken(AgentId, message[g].roomId)
                           /\ HeldToken(g)' = HeldToken(g)
                           /\ (HeldToken(g) = responseId[g])'
                                <=> (LiveToken(AgentId, message[g].roomId)
                                        = responseId[g])']_vars

\* C12: a failure of the evaluator post-step changes neither the token table
\* nor the dispatch: the step that ends runtime.evaluate (normally or with a
\* rejection) leaves latestResponseIds, the inner Maps and the processActions
\* calls as they were, and a handler whose response was fresh has dispatched
\* it before the evaluators run.
C12_EvaluatorFaultIsolated ==
    [][\A h \in Handlers :
          (pc[h] = "awaitEvaluate" /\ pc'[h] # pc[h])
              => /\ latestResponseIds' = latestResponseIds
                 /\ maps' = maps
                 /\ \A g \in Handlers :
                       calls'[g].processActions = calls[g].processActions
                 /\ (shouldRespond[h] = "true") => Dispatched(h)]_vars

C12_Witness ==
    \E h \in Handlers :
        /\ pc[h] = "rejected" /\ calls[h].evaluate = 1
        /\ Dispatched(h)
        /\ \E g \in Handlers : g # h /\ InFlight(g)

\* The text contains the name, letter case aside.
ContainsNameIgnoringCase(text, name) ==
    \E i \in 1..Len(text) :
        /\ i + Len(name) - 1 <= Len(text)
        /\ \A j \in 1..Len(name) : LowerChar(text[i + j - 1]) = LowerChar(name[j])

\* The fixed-order reference: the case that decides, by the inputs alone.
CsrCase ==
    LET mention == ContainsNameIgnoringCase(csr.text, CharacterName)
    IN CASE csr.userId = "agent" -> "author"
         [] csr.userId # "agent" /\ csr.agentUserState = "MUTED" /\ ~mention -> "muted"
         [] csr.userId # "agent" /\ csr.agentUserState = "FOLLOWED" -> "followed"
         [] csr.userId # "agent" /\ csr.agentUserState = "MUTED" /\ mention -> "mention"
         [] csr.userId # "agent" /\ csr.agentUserState = "NONE" /\ mention -> "mention"
         [] OTHER -> "model"

\* C13: checkShouldRespond returns what the fixed-order reference gives, and
\* TEXT_SMALL is invoked only when no early-out applies.
C13_ShouldRespondReference ==
    /\ csr.TEXT_SMALL > 0 => (csr.TEXT_SMALL = 1 /\ CsrCase = "model")
    /\ csr.pc = "returned"
          => /\ CsrCase = "author" => csr.result = "false"
             /\ CsrCase = "muted" => csr.result = "false"
             /\ CsrCase = "followed" => csr.result = "true"
             /\ CsrCase = "mention" => csr.result = "true"
             /\ CsrCase = "model"
                   => /\ csr.TEXT_SMALL = 1
                      /\ csr.result = "true" <=> "RESPOND" \in csr.response

C13_Witness ==
    /\ csr.pc = "returned" /\ CsrCase = "followed"
    /\ csr.response = {"IGNORE"} /\ csr.result = "true"

\* C14: a message not written by the agent that contains the agent's name,
\* letter case aside, gets true in a MUTED room, and the model is not asked.
C14_MentionBeatsMute ==
    (/\ csr.pc = "returned" /\ csr.userId = "user"
     /\ csr.agentUserState = "MUTED"
     /\ ContainsNameIgnoringCase(csr.text, CharacterName))
        => csr.result = "true" /\ csr.TEXT_SMALL = 0

C14_Witness ==
    /\ csr.pc = "returned" /\ csr.userId = "user"
    /\ csr.agentUserState = "MUTED"
    /\ csr.text = <<"x", "s", "x">>
    /\ csr.result = "true"

\* C15: when the model was asked, the verdict is true if its text contains
\* RESPOND (also next to IGNORE or STOP), false if it contains IGNORE or STOP
\* without RESPOND, and false if it contains none of the three.
C15_ModelVerdict ==
    (csr.pc = "returned" /\ csr.TEXT_SMALL = 1)
        => /\ "RESPOND" \in csr.response => csr.result = "true"
           /\ ("RESPOND" \notin csr.response
                 /\ csr.response \cap {"IGNORE", "STOP"} # {})
                 => csr.result = "false"
           /\ csr.response = {} => csr.result = "false"

C15_Witness ==
    /\ csr.pc = "returned" /\ csr.TEXT_SMALL = 1
    /\ csr.response = {"RESPOND", "IGNORE", "STOP"}
    /\ csr.result = "true"

\* Vocabulary of the properties of the reflection evaluator.

SamePair(e, f) ==
    e.sourceEntityId = f.sourceEntityId /\ e.targetEntityId = f.targetEntityId
EdgesOf(pair) ==
    {i \in 1..Len(relationships) :
        <<relationships[i].sourceEntityId, relationships[i].targetEntityId>> = pair}
AtRest(p) == pass[p].pc \in {"idle", "returned", "rejected"}

\* C16: the relationship store never holds two edges of the same
\* (source, target) ordered pair.
C16_AtMostOneEdgePerPair ==
    \A i, j \in 1..Len(relationships) :
        SamePair(relationships[i], relationships[j]) => i = j

\* The passes that asked for a relationship write in this step.
AsksForWrite(p) ==
    /\ pass'[p] # pass[p]
    /\ pass'[p].pc = "awaitRelationshipWrite"

QuietPasses == \A p \in Passes : AtRest(p) /\ pass[p].pc # "rejected"
Seeded(pair) == \E i \in 1..Len(initialRelationships) :
                   <<initialRelationships[i].sourceEntityId,
                     initialRelationships[i].targetEntityId>> = pair
SeedOf(pair) == initialRelationships[CHOOSE i \in 1..Len(initialRelationships) :
                   <<initialRelationships[i].sourceEntityId,
                     initialRelationships[i].targetEntityId>> = pair]

\* C17: once every pass has returned, a pair that was observed twice or
\* more (the write of each observation answered) has exactly one stored
\* edge, whose tags are the union of the tags it had before and of every
\* observation, and whose interactions counter is the one it had before
\* (0 if none) plus one per observation.
C17_ObservationsMerge ==
    QuietPasses =>
        \A pair \in ResolvedPairs :
            observed[pair].n >= 2 =>
                /\ Cardinality(EdgesOf(pair)) = 1
                /\ \A i \in EdgesOf(pair) :
                      /\ Range(relationships[i].tags) =
                            observed[pair].tags \cup
                              (IF Seeded(pair) THEN Range(SeedOf(pair).tags) ELSE {})
                      /\ relationships[i].interactions =
                            observed[pair].n +
                              (IF Seeded(pair) /\ SeedOf(pair).interactions # NoInteractions
                               THEN SeedOf(pair).interactions ELSE 0)

\* C18: the write asked for an extracted relationship that resolves is an
\* update with the union of the tags and the loaded counter (0 if missing)
\* plus one when the loaded relationships hold an edge of the resolved pair,
\* and otherwise a creation with the given tags and interactions = 1.
C18_WriteAskedFor ==
    [][\A p \in Passes :
          AsksForWrite(p) =>
              LET rel == pass'[p].relationship
                  write == pass'[p].write
                  loaded == pass'[p].existingRelationships
                  sourceId == Resolved[rel].sourceId
                  targetId == Resolved[rel].targetId
                  hits == {i \in 1..Len(loaded) :
                              /\ loaded[i].sourceEntityId = sourceId
                              /\ loaded[i].targetEntityId = targetId}
              IN  IF hits # {}
                  THEN /\ write.op = "update"
                       /\ \E i \in hits :
                             /\ write.edge.id = loaded[i].id
                             /\ Range(write.edge.tags) =
                                   Range(loaded[i].tags) \cup Range(rel.tags)
                             /\ write.edge.interactions =
                                   (IF loaded[i].interactions = NoInteractions
                                    THEN 0 ELSE loaded[i].interactions) + 1
                  ELSE /\ write.op = "create"
                       /\ write.edge.sourceEntityId = sourceId
                       /\ write.edge.targetEntityId = targetId
                       /\ write.edge.tags = rel.tags
                       /\ write.edge.interactions = 1]_vars

\* generateObject gave the pass null, or the model's output for it does
\* not satisfy reflectionSchema.
ExtractionFailed(ps) == ps.output \in OutputKinds \ {"valid"}

\* C19: the step in which a pass gets an extraction that is null or not
\* valid for the schema ends the pass and changes neither the facts, nor
\* the relationships, nor the checkpoint; the pass has written nothing.
C19_FailedExtractionWritesNothing ==
    [][\A p \in Passes :
          (pass'[p] # pass[p] /\ ExtractionFailed(pass'[p])) =>
              /\ pass'[p].pc = "returned"
              /\ pass'[p].wrote = NoWrites
              /\ facts' = facts
              /\ relationships' = relationships
              /\ cache' = cache]_vars

\* A pass ended on a schema-invalid extraction while the conversation has
\* the checkpoint of an earlier pass.
C19_Witness ==
    \E p \in Passes :
        /\ pass[p].pc = "returned"
        /\ pass[p].output = "schemaInvalid"
        /\ cache[pass[p].message.roomId] = EarlierMessage

\* C20: the step in which a pass that got a valid extraction returns
\* leaves the id of the triggering message as the checkpoint of its
\* conversation.
C20_CompletedPassSetsCheckpoint ==
    [][\A p \in Passes :
          (/\ pass[p].pc # "returned"
           /\ pass'[p].pc = "returned"
           /\ pass'[p].reflection = "object")
              => cache'[pass'[p].message.roomId] = pass'[p].message.id]_vars

\* A pass returned after it persisted no fact and wrote no relationship,
\* although the extraction listed a relationship, and the checkpoint
\* moved to its message.
C20_Witness ==
    \E p \in Passes :
        /\ pass[p].pc = "returned"
        /\ pass[p].reflection = "object"
        /\ pass[p].wrote.facts = 0
        /\ pass[p].wrote.created = 0
        /\ pass[p].wrote.updated = 0
        /\ pass[p].skipped > 0
        /\ cache[pass[p].message.roomId] = pass[p].message.id
        /\ cache[pass[p].message.roomId] # EarlierMessage

----
\* reflectionEvaluator.validate: evaluators/reflection.ts, lines 386-410.
\* The messages of the conversation are numbered 1..history in the order
\* they were created.

\* getMemories({ roomId, count }) of the "messages" table: the `count`
\* most recent messages, the most recent first.
GetMemories(history, count) ==
    [i \in 1..(IF history < count THEN history ELSE count) |-> history + 1 - i]

\* Line 403: messages.splice(0, lastMessageIndex + 1), what stays.
SpliceFrom(messages, lastMessageIndex) ==
    SubSeq(messages, lastMessageIndex + 1, Len(messages))

\* Lines 398-405.
SinceCheckpoint(messages, lastMessageId) ==
    LET lastMessageIndex ==
            FindIndex([i \in 1..Len(messages) |-> messages[i] = lastMessageId])
    IN  IF lastMessageId # NoCheckpoint /\ lastMessageIndex # 0
        THEN SpliceFrom(messages, lastMessageIndex)
        ELSE messages

\* Variant of ReflectionIntervalOf that rounds down.
ReflectionIntervalFloor(conversationLength) == conversationLength \div 4

\* Line 407: Math.ceil(runtime.getConversationLength() / 4)
ReflectionIntervalOf(conversationLength) == (conversationLength + 3) \div 4

\* Variant of IsDue that accepts a count equal to the interval.
IsDueAtInterval(count, reflectionInterval) == count >= reflectionInterval

\* Line 409: messages.length > reflectionInterval
IsDue(count, reflectionInterval) == count > reflectionInterval

\* The calls of validate that are followed: the configured conversation
\* length, the number of messages of the conversation, and the checkpoint
\* in the cache (none, a message of the conversation, or an id that no
\* message of the conversation has).
ValCalls ==
    {[ValIdle EXCEPT !.pc = "awaitGetCache",
                     !.conversationLength = c,
                     !.history = h,
                     !.checkpoint = k] :
        c \in 1..MaxConversationLength, h \in 0..MaxHistory, k \in 0..(MaxHistory + 1)}

ValInit ==
    /\ HandlerInit
    /\ csr = CsrIdle
    /\ ReflectionIdle
    /\ val \in ValCalls
    /\ fp = FpIdle
    /\ res = ResIdle
    /\ gen = GenIdle
    /\ ev = EvIdle
    /\ EventsIdle

\* Lines 390-396: getCache answers; getMemories is asked.
ValGetCacheReturns ==
    /\ val.pc = "awaitGetCache"
    /\ val' = [val EXCEPT !.pc = "awaitGetMemories",
                          !.lastMessageId = val.checkpoint]
    /\ UNCHANGED nonValVars

\* Lines 393-409: getMemories answers; validate returns.
ValGetMemoriesReturns ==
    /\ val.pc = "awaitGetMemories"
    /\ LET messages == SinceCheckpoint(GetMemories(val.history, val.conversationLength),
                                       val.lastMessageId)
           reflectionInterval == ReflectionIntervalOf(val.conversationLength)
       IN  val' = [val EXCEPT
                     !.pc = "returned",
                     !.messages = messages,
                     !.reflectionInterval = reflectionInterval,
                     !.result = IF IsDue(Len(messages), reflectionInterval)
                                THEN "true" ELSE "false"]
    /\ UNCHANGED nonValVars

ValNext ==
    \/ ValGetCacheReturns
    \/ ValGetMemoriesReturns

SpecValidate == ValInit /\ [][ValNext]_vars

\* C21: validate answers true exactly when the number of messages left
\* after the truncation is greater than the least integer that is at least
\* conversationLength / 4.
C21_DueOnlyAboveInterval ==
    val.pc = "returned" =>
        LET interval == CHOOSE k \in 0..val.conversationLength :
                            4 * k >= val.conversationLength
                            /\ 4 * (k - 1) < val.conversationLength
        IN  /\ val.reflectionInterval = interval
            /\ val.result = "true" <=> Len(val.messages) > interval

\* validate answered false for a count equal to an interval that
\* conversationLength / 4 had to be rounded up to.
C21_Witness ==
    /\ val.pc = "returned"
    /\ val.conversationLength % 4 # 0
    /\ Len(val.messages) = val.reflectionInterval
    /\ val.result = "false"

\* The messages validate loaded, and those of them created after message m.
LoadedWindow == Range(GetMemories(val.history, val.conversationLength))
NewerThan(m) == {x \in LoadedWindow : x > m}

\* C22: validate counts the loaded messages that were created after the
\* checkpoint message when that message is among the loaded ones, and all
\* the loaded messages otherwise; it answers true only for more messages
\* newer than the checkpoint than the interval.
C22_CountsMessagesAfterCheckpoint ==
    val.pc = "returned" =>
        /\ Range(val.messages) =
              (IF val.lastMessageId \in LoadedWindow
               THEN NewerThan(val.lastMessageId) ELSE LoadedWindow)
        /\ (val.result = "true" /\ val.lastMessageId \in LoadedWindow)
              => Cardinality(NewerThan(val.lastMessageId)) > val.reflectionInterval

----
\* The fact writes of one reflection pass, fact by fact: evaluators/
\* reflection.ts, lines 299-320.

\* The facts the followed extraction can list.
FactChoices ==
    FactInputs \cup
        { [claim |-> <<"d">>, in_bio |-> FALSE, already_known |-> FALSE],
          [claim |-> <<>>, in_bio |-> FALSE, already_known |-> FALSE] }

\* Lines 311-317: the memory handed to addEmbeddingToMemory.
FactMemoryOf(fact) ==
    [entityId |-> AgentId, agentId |-> AgentId, text |-> fact.claim,
     roomId |-> ReflectionRoom, embedded |-> FALSE]

\* factsManager.addEmbeddingToMemory(memory): the memory with its embedding.
AddEmbeddingToMemory(memory) == [memory EXCEPT !.embedded = TRUE]

\* factsManager.createMemory(memory, true): one more stored memory.
CreateMemory(table, memory) == Append(table, memory)

FpCalls ==
    {[FpIdle EXCEPT !.pc = "awaitGenerate", !.extracted = e] :
        e \in SeqsUpTo(FactChoices, MaxExtracted)}

FpInit ==
    /\ HandlerInit
    /\ csr = CsrIdle
    /\ ReflectionIdle
    /\ val = ValIdle
    /\ fp \in FpCalls
    /\ res = ResIdle
    /\ gen = GenIdle
    /\ ev = EvIdle
    /\ EventsIdle

\* Lines 300-311: the extraction is there; the facts are filtered and
\* addEmbeddingToMemory is called for each of those kept.
FpGenerateReturns ==
    /\ fp.pc = "awaitGenerate"
    /\ LET newFacts == NewFacts(fp.extracted)
       IN  fp' = [fp EXCEPT
                    !.pc = "awaitFacts",
                    !.newFacts = newFacts,
                    !.progress = [i \in 1..Len(newFacts) |-> "awaitEmbedding"],
                    !.factMemory = [i \in 1..Len(newFacts) |-> FactMemoryOf(newFacts[i])]]
    /\ UNCHANGED nonFpVars

\* Variant of FpEmbeddingReturns that hands createMemory the memory it
\* built, not the one addEmbeddingToMemory answered.
FpEmbeddingReturnsDropped(i) ==
    /\ fp.pc \in {"awaitFacts", "rejected"}
    /\ i \in 1..Len(fp.progress)
    /\ fp.progress[i] = "awaitEmbedding"
    /\ fp' = [fp EXCEPT !.progress[i] = "awaitCreate"]
    /\ UNCHANGED nonFpVars

\* Lines 311-318: addEmbeddingToMemory answers for the i-th fact;
\* createMemory is called with its answer.
FpEmbeddingReturns(i) ==
    /\ fp.pc \in {"awaitFacts", "rejected"}
    /\ i \in 1..Len(fp.progress)
    /\ fp.progress[i] = "awaitEmbedding"
    /\ fp' = [fp EXCEPT !.progress[i] = "awaitCreate",
                        !.factMemory[i] = AddEmbeddingToMemory(@)]
    /\ UNCHANGED nonFpVars

\* Line 318: createMemory answers for the i-th fact.
FpCreateReturns(i) ==
    /\ fp.pc \in {"awaitFacts", "rejected"}
    /\ i \in 1..Len(fp.progress)
    /\ fp.progress[i] = "awaitCreate"
    /\ fp' = [fp EXCEPT !.progress[i] = "created",
                        !.stored = CreateMemory(@, fp.factMemory[i])]
    /\ UNCHANGED nonFpVars

\* Lines 311 and 318: a call for the i-th fact rejects, and with it the
\* Promise.all of line 309; the calls for the other facts go on.
FpFactFails(i) ==
    /\ fp.pc \in {"awaitFacts", "rejected"}
    /\ i \in 1..Len(fp.progress)
    /\ fp.progress[i] \in {"awaitEmbedding", "awaitCreate"}
    /\ fp' = [fp EXCEPT !.progress[i] = "failed", !.pc = "rejected"]
    /\ UNCHANGED nonFpVars

\* Line 309: the Promise.all resolves.
FpSettles ==
    /\ fp.pc = "awaitFacts"
    /\ \A i \in 1..Len(fp.progress) : fp.progress[i] = "created"
    /\ fp' = [fp EXCEPT !.pc = "settled"]
    /\ UNCHANGED nonFpVars

FpNext ==
    \/ FpGenerateReturns
    \/ \E i \in 1..MaxExtracted : FpEmbeddingReturns(i)
    \/ \E i \in 1..MaxExtracted : FpCreateReturns(i)
    \/ \E i \in 1..MaxExtracted : FpFactFails(i)
    \/ FpSettles

SpecFacts == FpInit /\ [][FpNext]_vars

\* The extracted facts the claim says are persisted, and how many stored
\* memories, respectively such facts, have the text t.
Persistable(fact) ==
    /\ fact.already_known = FALSE
    /\ fact.in_bio = FALSE
    /\ \E i \in 1..Len(fact.claim) : fact.claim[i] # " "
StoredWith(t) == Cardinality({i \in 1..Len(fp.stored) : fp.stored[i].text = t})
PersistableWith(t) ==
    Cardinality({i \in 1..Len(fp.extracted) :
                    Persistable(fp.extracted[i]) /\ fp.extracted[i].claim = t})
ClaimsOf == {f.claim : f \in FactChoices}

\* C23: every stored fact memory is attributed to the agent, carries its
\* embedding and has the text of an extracted fact that is not already
\* known, not in the bio and not blank, no more often than such facts were
\* extracted; once all fact writes settled, exactly these facts are stored.
C23_PersistsExactlyNewFacts ==
    /\ \A i \in 1..Len(fp.stored) :
          /\ fp.stored[i].entityId = AgentId
          /\ fp.stored[i].embedded
    /\ \A t \in ClaimsOf : StoredWith(t) <= PersistableWith(t)
    /\ fp.pc = "settled" => \A t \in ClaimsOf : StoredWith(t) = PersistableWith(t)

\* The fact writes settled for an extraction that listed two facts to
\* persist and one not to.
C23_Witness ==
    /\ fp.pc = "settled"
    /\ Len(fp.stored) = 2
    /\ Len(fp.extracted) = 3

\* An identifier that is a UUID, or part of the id of an entity of the
\* room, or part of one of its names whatever the case.
Known(entityId) ==
    \/ IsUuid(entityId)
    \/ \E i \in 1..Len(Entities) :
          \/ Includes(Entities[i].id, entityId)
          \/ \E k \in 1..Len(Entities[i].names) :
                Includes(ToLowerCase(Entities[i].names[k]), ToLowerCase(entityId))
KnownEndpoints ==
    {rel \in RelInputs : Known(rel.sourceEntityId) /\ Known(rel.targetEntityId)}
WritesAskedBy(ps) ==
    ps.wrote.created + ps.wrote.updated
        + (IF ps.pc = "awaitRelationshipWrite" THEN 1 ELSE 0)

\* C24: a write is asked only for a relationship both of whose endpoints
\* resolve; the step that skips a relationship goes on with the next entry
\* or with the checkpoint write; a pass in its loop has asked one write for
\* each entry it read and did not skip; and a pass that skipped an entry
\* and returns leaves its message as the checkpoint.
C24_UnresolvedIsSkippedOnly ==
    [][\A p \in Passes :
          pass'[p] # pass[p] =>
              /\ AsksForWrite(p) => pass'[p].relationship \in KnownEndpoints
              /\ pass'[p].skipped > pass[p].skipped =>
                    pass'[p].pc \in {"awaitRelationshipWrite", "awaitSetCache"}
              /\ pass'[p].pc \in {"awaitRelationshipWrite", "awaitSetCache", "returned"} =>
                    WritesAskedBy(pass'[p]) = pass'[p].processed - pass'[p].skipped
              /\ (pass'[p].pc = "returned" /\ pass'[p].skipped > 0) =>
                    cache'[pass'[p].message.roomId] = pass'[p].message.id]_vars

\* A pass skipped an entry, wrote the relationship of another one and
\* returned with its message as the checkpoint.
C24_Witness ==
    \E p \in Passes :
        /\ pass[p].pc = "returned"
        /\ pass[p].skipped = 1
        /\ pass[p].processed = 2
        /\ pass[p].wrote.created + pass[p].wrote.updated = 1
        /\ cache[pass[p].message.roomId] = pass[p].message.id

----
\* resolveEntity on its own: evaluators/reflection.ts, lines 119-152.

IdChars == {"a", "A", "b"}
\* The identifiers resolveEntity is given: short texts, UUIDs in lower and
\* upper case, and texts that just miss the UUID syntax.
Identifiers ==
    SeqsUpTo(IdChars, MaxIdLen)
        \cup {Uuid("a"), Uuid("A"), Uuid("0")}
        \cup {Uuid("g"), SubSeq(Uuid("a"), 1, 35), [Uuid("a") EXCEPT ![9] = "a"]}

\* The entities a roster is made of.
RosterEntities ==
    {[id |-> i, names |-> n] :
        i \in {<<"a", "b">>, <<"b">>, Uuid("a")},
        n \in {<<>>, << <<"b">> >>, << <<"x">>, <<"A", "b">> >>}}

ResCalls ==
    {[ResIdle EXCEPT !.pc = "called", !.entityId = e, !.entities = r] :
        e \in Identifiers, r \in SeqsUpTo(RosterEntities, MaxRoster)}

ResInit ==
    /\ HandlerInit
    /\ csr = CsrIdle
    /\ ReflectionIdle
    /\ val = ValIdle
    /\ fp = FpIdle
    /\ res \in ResCalls
    /\ gen = GenIdle
    /\ ev = EvIdle
    /\ EventsIdle

\* Lines 121-149: one of the rules matches and resolveEntity returns.
ResReturns ==
    /\ res.pc = "called"
    /\ ResolveEntity(res.entityId, res.entities) # Throws
    /\ res' = [res EXCEPT !.pc = "returned",
                          !.value = ResolveEntity(res.entityId, res.entities)]
    /\ UNCHANGED nonResVars

\* Line 151: no rule matches and resolveEntity throws.
ResThrows ==
    /\ res.pc = "called"
    /\ ResolveEntity(res.entityId, res.entities) = Throws
    /\ res' = [res EXCEPT !.pc = "threw", !.threw = TRUE]
    /\ UNCHANGED nonResVars

ResNext ==
    \/ ResReturns
    \/ ResThrows

SpecResolve == ResInit /\ [][ResNext]_vars

\* The rules as the claim words them.
HexOrDash(c, dash) ==
    IF dash THEN c = "-"
    ELSE c \in {"0", "1", "2", "3", "4", "5", "6", "7", "8", "9"}
              \cup {"a", "b", "c", "d", "e", "f"} \cup {"A", "B", "C", "D", "E", "F"}
HasUuidSyntax(t) ==
    /\ Len(t) = 8 + 1 + 4 + 1 + 4 + 1 + 4 + 1 + 12
    /\ \A i \in 1..Len(t) : HexOrDash(t[i], i \in {9, 14, 19, 24})
\* sub occurs in t from position k on.
OccursAt(sub, t, k) ==
    /\ k + Len(sub) - 1 <= Len(t)
    /\ \A j \in 1..Len(sub) : t[k + j - 1] = sub[j]
Occurs(sub, t) == \E k \in 1..(Len(t) + 1) : OccursAt(sub, t, k)
OccursIgnoringCase(sub, t) ==
    \E k \in 1..(Len(t) + 1) :
        /\ k + Len(sub) - 1 <= Len(t)
        /\ \A j \in 1..Len(sub) : LowerChar(t[k + j - 1]) = LowerChar(sub[j])
\* Which entities of the call's roster each rule accepts.
RuleB == [i \in 1..Len(res.entities) |-> res.entities[i].id = res.entityId]
RuleC == [i \in 1..Len(res.entities) |-> Occurs(res.entityId, res.entities[i].id)]
RuleD ==
    [i \in 1..Len(res.entities) |->
        \E k \in 1..Len(res.entities[i].names) :
            OccursIgnoringCase(res.entityId, res.entities[i].names[k])]
\* The call answered the id of the first entity of the roster the rule accepts.
AnsweredFirst(rule) ==
    \E i \in DOMAIN rule :
        /\ rule[i]
        /\ \A j \in 1..(i - 1) : ~rule[j]
        /\ res.pc = "returned"
        /\ res.value = res.entities[i].id
SomeEntity(rule) == \E i \in DOMAIN rule : rule[i]

\* C25: a finished call of resolveEntity answered by the first of its rules
\* that matches: the identifier itself if it has the UUID syntax, else the
\* id of the first entity with that id, else of the first entity whose id
\* contains it, else of the first entity with a name that contains it
\* whatever the case; it threw if none matches, and only then.
C25_FirstMatchingRuleWins ==
    res.pc \in {"returned", "threw"} =>
        IF HasUuidSyntax(res.entityId)
        THEN res.pc = "returned" /\ res.value = res.entityId
        ELSE IF SomeEntity(RuleB) THEN AnsweredFirst(RuleB)
        ELSE IF SomeEntity(RuleC) THEN AnsweredFirst(RuleC)
        ELSE IF SomeEntity(RuleD) THEN AnsweredFirst(RuleD)
        ELSE res.pc = "threw"

\* A call answered by the partial-id rule although the name rule points
\* to another entity of the roster.
C25_Witness ==
    /\ res.pc = "returned"
    /\ ~HasUuidSyntax(res.entityId)
    /\ ~SomeEntity(RuleB)
    /\ AnsweredFirst(RuleC)
    /\ SomeEntity(RuleD)
    /\ ~AnsweredFirst(RuleD)

\* C26: a call of resolveEntity with an identifier that has the UUID
\* syntax returns that identifier, whatever the roster.
C26_UuidResolvesToItself ==
    (res.pc # "called" /\ HasUuidSyntax(res.entityId)) =>
        /\ res.pc = "returned"
        /\ ~res.threw
        /\ res.value = res.entityId

\* A UUID was returned for the empty roster.
C26_Witness ==
    /\ res.pc = "returned"
    /\ HasUuidSyntax(res.entityId)
    /\ res.entities = <<>>
    /\ res.value = res.entityId

----
\* generateObject on its own: evaluators/reflection.ts, lines 154-244.

\* The prompts: empty and not.
Prompts == {<<>>, <<"p">>}
\* The schemas: none, one that accepts objects only, one that accepts
\* arrays only.
Schemas == {"none", "object", "array"}
\* The characters of the model's text where JSON is looked for, and where
\* an enum value is.
JsonChars == {"{", "}", "[", "]", "1", " "}
EnumChars == {"a", "A", "b", " "}
EnumPool == {<<"a">>, <<"b">>, <<"a", "b">>}
EnumLists == SeqsUpTo(EnumPool, MaxEnumValues)
JsonOutputs == SeqsUpTo(JsonChars, MaxOutputLen)
EnumOutputs == SeqsUpTo(EnumChars, MaxOutputLen)

\* What generateObject returns for null.
Null == <<"null">>

\* String.prototype.trim
Trim(str) ==
    LET kept == {i \in 1..Len(str) : str[i] # " "}
    IN  IF kept = {} THEN <<>>
        ELSE SubSeq(str, CHOOSE i \in kept : \A j \in kept : i <= j,
                         CHOOSE i \in kept : \A j \in kept : i >= j)

\* String.prototype.indexOf and lastIndexOf of one character, counted
\* from 1; 0 stands for -1.
IndexOf(str, c) ==
    IF \E i \in 1..Len(str) : str[i] = c
    THEN CHOOSE i \in 1..Len(str) : str[i] = c /\ \A j \in 1..(i - 1) : str[j] # c
    ELSE 0
LastIndexOf(str, c) ==
    IF \E i \in 1..Len(str) : str[i] = c
    THEN CHOOSE i \in 1..Len(str) : str[i] = c /\ \A j \in (i + 1)..Len(str) : str[j] # c
    ELSE 0

\* JSON.parse succeeds: over JsonChars a JSON text is a number, an object
\* without members, or an array that is empty or holds one JSON text, with
\* white space around any of them.
RECURSIVE IsJson(_)
IsJson(str) ==
    LET s == Trim(str)
        n == Len(s)
        inner == SubSeq(s, 2, n - 1)
    IN  /\ n > 0
        /\ \/ \A i \in 1..n : s[i] = "1"
           \/ n >= 2 /\ s[1] = "{" /\ s[n] = "}" /\ Trim(inner) = <<>>
           \/ n >= 2 /\ s[1] = "[" /\ s[n] = "]" /\ (Trim(inner) = <<>> \/ IsJson(inner))

\* The value JSON.parse returns, written without white space.
JsonParse(str) == SelectSeq(str, LAMBDA c : c # " ")
JsonTypeOf(json) ==
    IF json[1] = "{" THEN "object" ELSE IF json[1] = "[" THEN "array" ELSE "number"
\* schema.parse(json) returns and does not throw.
SchemaAccepts(schema, json) == schema = JsonTypeOf(json)

\* Variant of PromptIsEmpty that tests the prompt after the enum branch.
PromptIsEmptyAfterEnum(call) == call.prompt = <<>> /\ call.output # "enum"

\* Lines 163-167: !prompt.
PromptIsEmpty(call) == call.prompt = <<>>

\* Lines 170 and 203: which useModel call is made.
IsEnumCall(call) == call.output = "enum"

\* Lines 181-199: what the enum branch returns for the model's text.
EnumValueOf(enumValues, response) ==
    LET cleanedResponse == Trim(response)
        matched == FindIndex([i \in 1..Len(enumValues) |->
                      Includes(ToLowerCase(cleanedResponse), ToLowerCase(enumValues[i]))])
    IN  IF \E i \in 1..Len(enumValues) : enumValues[i] = cleanedResponse
        THEN cleanedResponse
        ELSE IF matched # 0 /\ enumValues[matched] # <<>> THEN enumValues[matched]
        ELSE Null

\* Lines 211-222: the text handed to JSON.parse.
JsonStringOf(output, response) ==
    LET firstChar == IF output = "array" THEN "[" ELSE "{"
        lastChar == IF output = "array" THEN "]" ELSE "}"
        firstBracket == IndexOf(response, firstChar)
        lastBracket == LastIndexOf(response, lastChar)
    IN  IF firstBracket # 0 /\ lastBracket # 0 /\ firstBracket < lastBracket
        THEN SubSeq(response, firstBracket, lastBracket)
        ELSE response

\* Lines 211-243: what the object and array branch returns for the model's
\* text.
ObjectOf(output, schema, response) ==
    LET jsonString == JsonStringOf(output, response)
    IN  IF Len(jsonString) = 0 THEN Null
        ELSE IF ~IsJson(jsonString) THEN Null
        ELSE IF schema = "none" THEN JsonParse(jsonString)
        ELSE IF SchemaAccepts(schema, JsonParse(jsonString)) THEN JsonParse(jsonString)
        ELSE Null

GenCalls ==
    {[GenIdle EXCEPT !.pc = "called", !.prompt = p, !.output = o, !.schema = s] :
        p \in Prompts, o \in {"object", "array"}, s \in Schemas}
    \cup {[GenIdle EXCEPT !.pc = "called", !.prompt = p, !.output = "enum",
                          !.enumValues = e] :
             p \in Prompts, e \in EnumLists}

GenInit ==
    /\ HandlerInit
    /\ csr = CsrIdle
    /\ ReflectionIdle
    /\ val = ValIdle
    /\ fp = FpIdle
    /\ res = ResIdle
    /\ gen \in GenCalls
    /\ ev = EvIdle
    /\ EventsIdle

\* Lines 163-167: the prompt is empty and generateObject throws.
GenThrowsOnEmptyPrompt ==
    /\ gen.pc = "called"
    /\ PromptIsEmpty(gen)
    /\ gen' = [gen EXCEPT !.pc = "threw"]
    /\ UNCHANGED nonGenVars

\* Lines 170-178 and 203-209: the model is invoked.
GenInvokesModel ==
    /\ gen.pc = "called"
    /\ ~PromptIsEmpty(gen)
    /\ gen' = [gen EXCEPT !.pc = "awaitModel", !.invoked = @ + 1]
    /\ UNCHANGED nonGenVars

\* Lines 181-199 and 211-243: the model answers and generateObject returns.
GenModelReturns(response) ==
    /\ gen.pc = "awaitModel"
    /\ response \in (IF IsEnumCall(gen) THEN EnumOutputs ELSE JsonOutputs)
    /\ gen' = [gen EXCEPT
                 !.pc = "returned",
                 !.response = response,
                 !.value = IF IsEnumCall(gen)
                           THEN EnumValueOf(gen.enumValues, response)
                           ELSE ObjectOf(gen.output, gen.schema, response)]
    /\ UNCHANGED nonGenVars

\* Lines 171 and 203: useModel rejects; the await is in no try.
GenModelFails ==
    /\ gen.pc = "awaitModel"
    /\ gen' = [gen EXCEPT !.pc = "threw"]
    /\ UNCHANGED nonGenVars

GenNext ==
    \/ GenThrowsOnEmptyPrompt
    \/ GenInvokesModel
    \/ \E response \in JsonOutputs \cup EnumOutputs : GenModelReturns(response)
    \/ GenModelFails

SpecGenerate == GenInit /\ [][GenNext]_vars

\* C27: a call of generateObject with a prompt that is not empty never
\* ends by throwing: it returns, with null when the model invocation
\* failed or the text could not be parsed or validated.
C27_NeverRaises ==
    (gen.pc \in {"returned", "threw"} /\ gen.prompt # <<>>) => gen.pc = "returned"

\* C28: a call of generateObject with an empty prompt throws without
\* having invoked the model, whatever the output mode.
C28_EmptyPromptThrowsFirst ==
    (gen.pc # "called" /\ gen.pc # "idle" /\ gen.prompt = <<>>) =>
        gen.pc = "threw" /\ gen.invoked = 0

\* An enum call with an empty prompt threw before any invocation.
C28_Witness ==
    /\ gen.pc = "threw"
    /\ gen.prompt = <<>>
    /\ gen.output = "enum"
    /\ gen.enumValues # <<>>
    /\ gen.invoked = 0

\* The text has an opening bracket of the requested shape before a closing
\* one.
HasBracketPair(output, text) ==
    LET open == IF output = "array" THEN "[" ELSE "{"
        close == IF output = "array" THEN "]" ELSE "}"
    IN  \E i, j \in 1..Len(text) : i < j /\ text[i] = open /\ text[j] = close

\* C29: a call of generateObject in object or array mode whose model text
\* has no bracket pair of the requested shape returns null, with a schema
\* and without.
C29_NoBracketPairIsNull ==
    (/\ gen.pc = "returned"
     /\ gen.output \in {"object", "array"}
     /\ ~HasBracketPair(gen.output, gen.response)) => gen.value = Null

\* The enum values the trimmed text contains, whatever the case.
ContainedValues ==
    {gen.enumValues[i] : i \in {k \in 1..Len(gen.enumValues) :
        OccursIgnoringCase(gen.enumValues[k], Trim(gen.response))}}

\* C30: a call of generateObject in enum mode returns the trimmed text if
\* it is one of enumValues; else the one enum value the text contains,
\* whatever the case, if it contains exactly one; else null.
C30_EnumNeedsExactlyOne ==
    (gen.pc = "returned" /\ gen.output = "enum") =>
        IF \E i \in 1..Len(gen.enumValues) : gen.enumValues[i] = Trim(gen.response)
        THEN gen.value = Trim(gen.response)
        ELSE IF Cardinality(ContainedValues) = 1
        THEN gen.value \in ContainedValues
        ELSE gen.value = Null

----
\* C32: a handler takes the "Response discarded" return only if a token
\* was minted for its conversation after its own: the handler of the
\* last-minted token is never discarded as stale.
C32_LastMintedNeverStale ==
    \A h \in Handlers : stale[h] => \E g \in Handlers : MintedAfter(g, h)

\* C33: every write of a conversation's checkpoint stores a message that
\* is not older than the one the checkpoint held before.
C33_CheckpointNeverMovesBack ==
    [][\A r \in Rooms : cache'[r] >= cache[r]]_vars

----
\* The evaluator over the messages of one conversation: validate
\* (evaluators/reflection.ts, lines 386-410) and the pass it lets through
\* (lines 246-376), for each handled message.

EvConversations ==
    {[EvIdle EXCEPT !.conversationLength = c, !.history = h, !.checkpoint = k] :
        c \in {4, MaxConversationLength}, h \in 0..MaxBacklog, k \in 0..MaxBacklog}

\* The conversation holds some messages; its checkpoint is none or one of
\* them.
EvInit ==
    /\ HandlerInit
    /\ csr = CsrIdle
    /\ ReflectionIdle
    /\ val = ValIdle
    /\ fp = FpIdle
    /\ res = ResIdle
    /\ gen = GenIdle
    /\ ev \in {c \in EvConversations : c.checkpoint <= c.history}
    /\ EventsIdle

\* A message of the conversation was handled and the evaluators are run for
\* it: validate asks for the checkpoint (lines 390-392).
EvMessageHandled(e) ==
    /\ ev.run[e].pc = "idle"
    /\ \A d \in 1..(e - 1) : ev.run[d].pc # "idle"
    /\ ev' = [ev EXCEPT !.history = @ + 1,
                        !.run[e].pc = "awaitGetCache",
                        !.run[e].message = ev.history + 1]
    /\ UNCHANGED nonEvVars

\* Lines 390-396: getCache answers; getMemories is asked.
EvGetCacheReturns(e) ==
    /\ ev.run[e].pc = "awaitGetCache"
    /\ ev' = [ev EXCEPT !.run[e].pc = "awaitGetMemories",
                        !.run[e].lastMessageId = ev.checkpoint]
    /\ UNCHANGED nonEvVars

\* Lines 393-409 and 246-267: getMemories answers, validate returns, and
\* on true the handler is called.
EvGetMemoriesReturns(e) ==
    /\ ev.run[e].pc = "awaitGetMemories"
    /\ LET messages == SinceCheckpoint(GetMemories(ev.history, ev.conversationLength),
                                       ev.run[e].lastMessageId)
       IN  ev' = IF IsDue(Len(messages), ReflectionIntervalOf(ev.conversationLength))
                 THEN [ev EXCEPT !.run[e].pc = "inPass",
                                 !.run[e].window = Range(messages)]
                 ELSE [ev EXCEPT !.run[e].pc = "skipped"]
    /\ UNCHANGED nonEvVars

\* Lines 368-375: the pass wrote what it extracted, writes the checkpoint
\* and returns.
EvPassReturns(e) ==
    /\ ev.run[e].pc = "inPass"
    /\ ev' = [ev EXCEPT !.checkpoint = ev.run[e].message,
                        !.run[e].pc = "returned"]
    /\ UNCHANGED nonEvVars

\* Lines 256-366: the pass ends before its setCache: the extraction is
\* null, or a query, the model or a write rejects.
EvPassEndsEarly(e) ==
    /\ ev.run[e].pc = "inPass"
    /\ ev' = [ev EXCEPT !.run[e].pc = "ended"]
    /\ UNCHANGED nonEvVars

EvNext ==
    \/ \E e \in Evaluations : EvMessageHandled(e)
    \/ \E e \in Evaluations : EvGetCacheReturns(e)
    \/ \E e \in Evaluations : EvGetMemoriesReturns(e)
    \/ \E e \in Evaluations : EvPassReturns(e)
    \/ \E e \in Evaluations : EvPassEndsEarly(e)

SpecEvaluate == EvInit /\ [][EvNext]_vars

\* C34: no two passes of a conversation are in flight over a message they
\* both count as new.
C34_NoWindowReflectedTwice ==
    \A d, e \in Evaluations :
        (d # e /\ ev.run[d].pc = "inPass" /\ ev.run[e].pc = "inPass")
            => ev.run[d].window \cap ev.run[e].window = {}

----
\* C35: a step changes the checkpoint of a conversation only as the last
\* step of a pass all of whose fact writes and relationship writes have
\* answered, and the step in which a pass is rejected leaves every
\* checkpoint as it was.
C35_CheckpointAfterEveryWrite ==
    [][/\ \A r \in Rooms :
             cache'[r] # cache[r]
                 => \E p \in Passes :
                       /\ pass[p].pc = "awaitSetCache"
                       /\ pass'[p].pc = "returned"
                       /\ pass[p].message.roomId = r
                       /\ cache'[r] = pass[p].message.id
                       /\ pass[p].wrote.facts = Len(pass[p].newFacts)
                       /\ pass[p].wrote.created + pass[p].wrote.updated
                              = pass[p].processed - pass[p].skipped
       /\ \A p \in Passes :
             (pass[p].pc # "rejected" /\ pass'[p].pc = "rejected") => cache' = cache]_vars

\* A pass was rejected by a relationship write after an earlier write of
\* it had been stored, and the checkpoint is not its message.
C35_Witness ==
    \E p \in Passes :
        /\ pass[p].pc = "rejected"
        /\ pass[p].wrote.created + pass[p].wrote.updated > 0
        /\ pass[p].processed - pass[p].skipped > pass[p].wrote.created + pass[p].wrote.updated
        /\ cache[pass[p].message.roomId] # pass[p].message.id

----
\* The events table of bootstrap.ts, lines 759-811, with the message and
\* reaction handlers it registers.

\* Variant of events in which voice messages have a handler of their own.
eventsVoiceApart ==
    [MESSAGE_RECEIVED |-> <<"messageReceivedHandler">>,
     VOICE_MESSAGE_RECEIVED |-> <<"voiceMessageReceivedHandler">>,
     REACTION_RECEIVED |-> <<"reactionReceivedHandler">>,
     SERVER_JOINED |-> <<"handleServerSync">>,
     SERVER_CONNECTED |-> <<"handleServerSync">>,
     SERVER_JOINED_LEGACY |-> <<"syncServerUsers">>,
     USER_JOINED |-> <<"syncSingleUser">>]

\* Lines 759-811: the handlers registered for each event, by the function
\* each of them calls.
events ==
    [MESSAGE_RECEIVED |-> <<"messageReceivedHandler">>,
     VOICE_MESSAGE_RECEIVED |-> <<"messageReceivedHandler">>,
     REACTION_RECEIVED |-> <<"reactionReceivedHandler">>,
     SERVER_JOINED |-> <<"handleServerSync">>,
     SERVER_CONNECTED |-> <<"handleServerSync">>,
     SERVER_JOINED_LEGACY |-> <<"syncServerUsers">>,
     USER_JOINED |-> <<"syncSingleUser">>]

MessageEvents == {"MESSAGE_RECEIVED", "VOICE_MESSAGE_RECEIVED"}
Registered(e, handler) == handler \in Range(events[e])

\* A message event is emitted for a message that mentions the agent; the
\* handler registered for it, if it is messageReceivedHandler, starts
\* (lines 760-777 and 187-207).
EmitMessage(h, e, r) ==
    /\ event[h] = "none"
    /\ \A g \in Handlers : g < h => event[g] # "none"
    /\ event' = [event EXCEPT ![h] = e]
    /\ IF Registered(e, "messageReceivedHandler")
       THEN MintToken(h, r, "mention")
       ELSE UNCHANGED handlerVars
    /\ UNCHANGED <<csr, reflectionVars, val, fp, res, gen, ev, rx, sync, br>>

\* Variant of RxCreateMemoryFails that swallows the duplicate-key failure
\* only.
RxCreateMemoryFailsRethrown(code) ==
    /\ rx.pc = "awaitCreateMemory"
    /\ rx' = [rx EXCEPT !.pc = IF code = "23505" THEN "returned" ELSE "rejected",
                        !.error = code]
    /\ UNCHANGED nonRxVars

\* Lines 778 and 270-271: REACTION_RECEIVED is emitted;
\* reactionReceivedHandler asks for the memory of the reaction.
EmitReaction ==
    /\ rx.pc = "idle"
    /\ Registered("REACTION_RECEIVED", "reactionReceivedHandler")
    /\ rx' = [rx EXCEPT !.pc = "awaitCreateMemory", !.createMemory = @ + 1]
    /\ UNCHANGED nonRxVars

\* Lines 271 and 279: createMemory answers; the handler returns.
RxCreateMemoryReturns ==
    /\ rx.pc = "awaitCreateMemory"
    /\ rx' = [rx EXCEPT !.pc = "returned"]
    /\ UNCHANGED nonRxVars

\* Lines 272-278: createMemory rejects, with the duplicate-key code or with
\* another failure; the catch returns, or logs and ends the handler.
RxCreateMemoryFails(code) ==
    /\ rx.pc = "awaitCreateMemory"
    /\ rx' = [rx EXCEPT !.pc = "returned", !.error = code]
    /\ UNCHANGED nonRxVars

EventsNext ==
    \/ \E h \in 1..MaxHandlers, e \in MessageEvents, r \in Rooms : EmitMessage(h, e, r)
    \/ EmitReaction
    \/ RxCreateMemoryReturns
    \/ \E code \in {"23505", "other"} : RxCreateMemoryFails(code)
    \/ \E h \in Handlers : PersistFails(h)
    \/ \E h \in Handlers : PersistSettles(h)
    \/ \E h \in Handlers, st \in UserStates : UserStateReturns(h, st)
    \/ \E h \in Handlers : ModelFails(h)
    \/ \E h \in Handlers : ComposeStateReturns(h)
    \/ \E h \in Handlers, c \in {"object", "null"} : LargeModelReturns(h, c)
    \/ \E h \in Handlers : ComposeState2Returns(h)
    \/ \E h \in Handlers : ProcessActionsReturns(h)
    \/ \E h \in Handlers : EvaluateReturns(h)
    \/ \E h \in Handlers : EvaluateFails(h)

SpecEvents == Init /\ [][EventsNext]_vars

\* C36: the step in which a message event is emitted for a conversation,
\* voice or text, leaves the token of the started handler as the live token
\* of that conversation, and a handler that reaches the comparison after
\* a later message event of its conversation, whatever the two events
\* are, takes the "Response discarded" return.
C36_VoiceAndTextShareTokens ==
    [][\A h \in Handlers :
          /\ (event[h] = "none" /\ event'[h] \in MessageEvents)
                => \E r \in Rooms : /\ message'[h].roomId = r
                                    /\ LiveToken(AgentId, r)' = v4(h)
          /\ (/\ pc[h] = "awaitLargeModel"
              /\ pc'[h] \notin {"awaitLargeModel", "rejected"}
              /\ \E g \in Handlers : MintedAfter(g, h))
                => stale'[h]]_vars

\* A text-message response was discarded because a voice message of the
\* same conversation had arrived after it.
C36_Witness ==
    \E g, h \in Handlers :
        /\ event[h] = "MESSAGE_RECEIVED"
        /\ event[g] = "VOICE_MESSAGE_RECEIVED"
        /\ MintedAfter(g, h)
        /\ stale[h]

\* C37: a step of reactionReceivedHandler leaves the token table and
\* every invocation of messageReceivedHandler, with its model and
\* evaluator calls, as they were; the handler asks for one memory and it
\* never ends rejected, whatever createMemory answers.
C37_ReactionOnlyPersists ==
    [][/\ rx' # rx => handlerVars' = handlerVars
       /\ rx'.pc # "rejected"
       /\ rx'.createMemory <= 1]_vars

\* The reaction handler returned after a failure other than the duplicate
\* key while a response was in flight, whose token is still live.
C37_Witness ==
    /\ rx.pc = "returned"
    /\ rx.error = "other"
    /\ \E h \in Handlers :
          /\ pc[h] = "awaitLargeModel"
          /\ LiveToken(AgentId, message[h].roomId) = responseId[h]

----
\* handleServerSync: bootstrap.ts, lines 612-697.

\* `rooms` is an array of some length, or it is not given.
RoomsUndefined == -1
\* A user as the callback of lines 658-676 reads it: with
\* user.metadata[source], with metadata but none for the source, or
\* without metadata.
UserKinds == {"ok", "noSource", "noMetadata"}
\* Line 652; 50 in the code, smaller here so that one event has several
\* batches.
batchSize == 2

SyncCalls ==
    {[SyncIdle EXCEPT !.pc = "awaitWorld", !.rooms = n, !.users = u] :
        n \in {RoomsUndefined} \cup 0..MaxSyncRooms,
        u \in SeqsUpTo(UserKinds, MaxSyncUsers)}

SyncInit ==
    /\ HandlerInit
    /\ csr = CsrIdle
    /\ ReflectionIdle
    /\ val = ValIdle
    /\ fp = FpIdle
    /\ res = ResIdle
    /\ gen = GenIdle
    /\ ev = EvIdle
    /\ event = [h \in Handlers |-> "none"]
    /\ rx = RxIdle
    /\ sync \in SyncCalls
    /\ br = BrIdle

\* Lines 689-695: the outer catch logs what was thrown and the handler
\* returns.
Caught(s, thrown) == [s EXCEPT !.pc = "returned", !.caught = thrown]

\* Line 654: users.slice(i, i + batchSize), by position.
UserBatch(s, i) == {u \in 1..Len(s.users) : i < u /\ u <= i + batchSize}

\* Lines 661-671: the callback of a user reaches its ensureConnection call:
\* there is a first room and the user has metadata for the source.
Connects(s, u) == s.rooms > 0 /\ s.users[u] = "ok"

\* Lines 672-676: the callback's catch throws itself, on
\* user.metadata.username of a user without metadata.
CallbackRejects(s, u) == s.users[u] = "noMetadata"

\* Lines 679-688: after a batch, the delay before the next one, or the end.
AfterBatch(s) ==
    IF s.i + batchSize < Len(s.users)
    THEN [s EXCEPT !.pc = "awaitDelay"]
    ELSE [s EXCEPT !.pc = "returned"]

\* Lines 653-677: the batch from position i on is mapped: every callback
\* runs up to its ensureConnection call or through its catch, and
\* Promise.all is awaited.
StartBatch(s, i) ==
    LET connecting == {u \in UserBatch(s, i) : Connects(s, u)}
        started == [s EXCEPT !.i = i, !.attempted = @ \cup connecting]
    IN  IF s.rooms = RoomsUndefined THEN Caught(s, "rooms.length")
        ELSE IF \E u \in UserBatch(s, i) : CallbackRejects(s, u) THEN Caught(started, "user.metadata.username")
        ELSE IF connecting = {} THEN AfterBatch(started)
        ELSE [started EXCEPT !.pc = "awaitConnections"]

\* Lines 650-688: the users part of the handler.
EnterUsers(s) ==
    IF Len(s.users) > 0 THEN StartBatch(s, 0) ELSE [s EXCEPT !.pc = "returned"]

\* Lines 624-647: ensureWorldExists answers; the first room is ensured, or
\* the users are synced.
SyncWorldReturns ==
    /\ sync.pc = "awaitWorld"
    /\ sync' = IF sync.rooms > 0 THEN [sync EXCEPT !.pc = "awaitRoom"]
               ELSE EnterUsers(sync)
    /\ UNCHANGED nonSyncVars

\* Line 624: ensureWorldExists rejects.
SyncWorldFails ==
    /\ sync.pc = "awaitWorld"
    /\ sync' = Caught(sync, "ensureWorldExists")
    /\ UNCHANGED nonSyncVars

\* Lines 636-647: ensureRoomExists answers; the next room is ensured, or
\* the users are synced.
SyncRoomReturns ==
    /\ sync.pc = "awaitRoom"
    /\ sync' = IF sync.ensured + 1 < sync.rooms
               THEN [sync EXCEPT !.ensured = @ + 1]
               ELSE EnterUsers([sync EXCEPT !.ensured = @ + 1])
    /\ UNCHANGED nonSyncVars

\* Line 637: ensureRoomExists rejects.
SyncRoomFails ==
    /\ sync.pc = "awaitRoom"
    /\ sync' = Caught(sync, "ensureRoomExists")
    /\ UNCHANGED nonSyncVars

\* Variant of SyncConnectionSettles without the try/catch of the callback.
SyncConnectionSettlesUncaught(u, ok) ==
    /\ sync.pc = "awaitConnections"
    /\ u \in sync.attempted \ sync.settled
    /\ LET s == [sync EXCEPT !.settled = @ \cup {u},
                             !.failed = IF ok THEN @ ELSE @ \cup {u}]
       IN  sync' = IF ~ok THEN Caught(s, "ensureConnection")
                   ELSE IF UserBatch(s, s.i) \cap s.attempted \subseteq s.settled
                   THEN AfterBatch(s)
                   ELSE s
    /\ UNCHANGED nonSyncVars

\* Lines 660-688: the ensureConnection of one user answers or rejects; the
\* callback ends either way, and with the last one of the batch Promise.all
\* answers.
SyncConnectionSettles(u, ok) ==
    /\ sync.pc = "awaitConnections"
    /\ u \in sync.attempted \ sync.settled
    /\ LET s == [sync EXCEPT !.settled = @ \cup {u},
                             !.failed = IF ok THEN @ ELSE @ \cup {u}]
       IN  sync' = IF UserBatch(s, s.i) \cap s.attempted \subseteq s.settled
                   THEN AfterBatch(s)
                   ELSE s
    /\ UNCHANGED nonSyncVars

\* Lines 680-682 and 653: the delay is over; the next batch is mapped.
SyncDelayElapses ==
    /\ sync.pc = "awaitDelay"
    /\ sync' = StartBatch(sync, sync.i + batchSize)
    /\ UNCHANGED nonSyncVars

SyncNext ==
    \/ SyncWorldReturns
    \/ SyncWorldFails
    \/ SyncRoomReturns
    \/ SyncRoomFails
    \/ \E u \in 1..MaxSyncUsers, ok \in BOOLEAN : SyncConnectionSettles(u, ok)
    \/ SyncDelayElapses

SpecSync == SyncInit /\ [][SyncNext]_vars

\* C38: no connection is attempted before every room of the event was
\* ensured; the handler never ends rejected; with no room no connection is
\* attempted; and when the handler returns after the world and a room or
\* more were ensured, every user with metadata for the source was
\* attempted if all users have metadata, whichever of the connections
\* failed.
C38_SyncAttemptsEveryUser ==
    /\ sync.attempted # {} => sync.ensured = sync.rooms
    /\ sync.pc # "rejected"
    /\ sync.rooms <= 0 => sync.attempted = {}
    /\ (/\ sync.pc = "returned"
        /\ sync.caught \notin {"ensureWorldExists", "ensureRoomExists"}
        /\ sync.rooms > 0
        /\ \A u \in 1..Len(sync.users) : sync.users[u] # "noMetadata")
          => sync.attempted = {u \in 1..Len(sync.users) : sync.users[u] = "ok"}

\* The handler returned after the connection of a user of the first batch
\* failed and a user of a later batch was attempted.
C38_Witness ==
    /\ sync.pc = "returned"
    /\ \E u, w \in sync.attempted :
          /\ u <= batchSize
          /\ u \in sync.failed
          /\ w > batchSize

----
\* createBranch: packages/cli/src/utils/github.ts, lines 151-363.

\* The statuses the code compares with, and any other one.
StatusOk == 200
StatusCreated == 201
StatusOther == 404
Statuses == {StatusOk, StatusCreated, StatusOther}
\* Recorded as the answer of a fetch that rejected.
Rejected == -1
\* What response.json() answers: a value with the members that are read,
\* an empty one ([] for the branches, {} elsewhere), or null.
JsonAnswers == {"value", "empty", "null"}

\* The request each fetch of the function issues, by the await it is
\* followed by.
RequestOf ==
    [base |-> "GET git/ref/heads/baseBranch",
     branches |-> "GET branches",
     altBase |-> "GET git/ref/heads/alternativeBranch",
     blob |-> "POST git/blobs",
     tree |-> "POST git/trees",
     commit |-> "POST git/commits",
     mainRef |-> "POST git/refs main",
     mainBase |-> "GET git/ref/heads/main",
     ref |-> "POST git/refs branch"]
FetchStages == DOMAIN RequestOf
JsonStages == {"branchesJson", "blobJson", "treeJson", "commitJson", "baseJson"}

\* Variant of AfterFetch that goes on after a blob, tree or commit request
\* whatever it answered.
AfterFetchUnchecked(stage, status) ==
    CASE stage = "base" -> IF status = StatusOk THEN "baseJson" ELSE "branches"
      [] stage = "branches" -> IF status = StatusOk THEN "branchesJson" ELSE "false"
      [] stage = "altBase" -> IF status = StatusOk THEN "baseJson" ELSE "false"
      [] stage = "blob" -> "blobJson"
      [] stage = "tree" -> "treeJson"
      [] stage = "commit" -> "commitJson"
      [] stage = "mainRef" -> IF status = StatusCreated THEN "mainBase" ELSE "false"
      [] stage = "mainBase" -> IF status = StatusOk THEN "baseJson" ELSE "false"
      [] stage = "ref" -> IF status = StatusCreated THEN "true" ELSE "false"

\* Lines 170-358: where the function goes when the fetch it awaits answers
\* with a status: the next await, or the value returned.
AfterFetch(stage, status) ==
    CASE stage = "base" -> IF status = StatusOk THEN "baseJson" ELSE "branches"
      [] stage = "branches" -> IF status = StatusOk THEN "branchesJson" ELSE "false"
      [] stage = "altBase" -> IF status = StatusOk THEN "baseJson" ELSE "false"
      [] stage = "blob" -> IF status = StatusCreated THEN "blobJson" ELSE "false"
      [] stage = "tree" -> IF status = StatusCreated THEN "treeJson" ELSE "false"
      [] stage = "commit" -> IF status = StatusCreated THEN "commitJson" ELSE "false"
      [] stage = "mainRef" -> IF status = StatusCreated THEN "mainBase" ELSE "false"
      [] stage = "mainBase" -> IF status = StatusOk THEN "baseJson" ELSE "false"
      [] stage = "ref" -> IF status = StatusCreated THEN "true" ELSE "false"

\* Lines 183-334: where the function goes when the json() it awaits
\* answers; a member read off null or off a missing `object` throws into
\* the catch of line 359.
AfterJson(stage, data) ==
    CASE stage = "branchesJson" -> IF data = "value" THEN "altBase" ELSE "blob"
      [] stage = "blobJson" -> IF data = "null" THEN "false" ELSE "tree"
      [] stage = "treeJson" -> IF data = "null" THEN "false" ELSE "commit"
      [] stage = "commitJson" -> IF data = "null" THEN "false" ELSE "mainRef"
      [] stage = "baseJson" -> IF data = "value" THEN "ref" ELSE "false"

\* The call after it went to `next`: the request of a fetch is issued, or
\* the value is returned.
BrGoes(call, next) ==
    IF next \in {"true", "false"}
    THEN [call EXCEPT !.pc = "returned", !.result = next]
    ELSE IF next \in FetchStages
    THEN [call EXCEPT !.pc = next, !.requests = Append(@, RequestOf[next])]
    ELSE [call EXCEPT !.pc = next]

\* Lines 158-168: createBranch was called and asked for the base branch.
BrCalled == BrGoes([BrIdle EXCEPT !.pc = "called"], "base")

BrInit ==
    /\ HandlerInit
    /\ csr = CsrIdle
    /\ ReflectionIdle
    /\ val = ValIdle
    /\ fp = FpIdle
    /\ res = ResIdle
    /\ gen = GenIdle
    /\ ev = EvIdle
    /\ event = [h \in Handlers |-> "none"]
    /\ rx = RxIdle
    /\ sync = SyncIdle
    /\ br = BrCalled

\* The fetch that is awaited answers with a status.
BrFetchAnswers(status) ==
    /\ br.pc \in FetchStages
    /\ br' = BrGoes([br EXCEPT !.answers = Append(@, status)],
                    AfterFetch(br.pc, status))
    /\ UNCHANGED nonBrVars

\* The json() that is awaited answers.
BrJsonAnswers(data) ==
    /\ br.pc \in JsonStages
    /\ br' = BrGoes(br, AfterJson(br.pc, data))
    /\ UNCHANGED nonBrVars

\* Lines 359-362: the fetch or the json() that is awaited rejects; the catch
\* logs the message of the error and returns false.
BrAwaitRejects ==
    /\ br.pc \in FetchStages \cup JsonStages
    /\ br' = [br EXCEPT !.pc = "returned",
                        !.result = "false",
                        !.answers = IF br.pc \in FetchStages
                                    THEN Append(@, Rejected) ELSE @]
    /\ UNCHANGED nonBrVars

BrNext ==
    \/ \E status \in Statuses : BrFetchAnswers(status)
    \/ \E data \in JsonAnswers : BrJsonAnswers(data)
    \/ BrAwaitRejects

SpecBranch == BrInit /\ [][BrNext]_vars

\* The requests of the bootstrap of an empty repository, in the order of
\* the claim.
BootstrapOrder ==
    <<RequestOf.blob, RequestOf.tree, RequestOf.commit, RequestOf.mainRef>>

IsBootstrapRequest(request) ==
    \E k \in 1..Len(BootstrapOrder) : BootstrapOrder[k] = request

\* C39: createBranch returns true only when its last request created the
\* ref of the requested branch and was answered 201; the bootstrap requests
\* it issued are, in order, a prefix of blob, tree, commit, main ref, issued
\* only after the base branch was missing and the branches were listed; a
\* bootstrap request not answered 201 is the last request of the call, which
\* returns false; and the call never ends by throwing.
C39_CreateBranchResult ==
    LET n == Len(br.requests)
        boot == SelectSeq(br.requests, IsBootstrapRequest)
    IN  /\ br.result = "true" =>
              /\ n > 0
              /\ br.requests[n] = RequestOf.ref
              /\ Len(br.answers) = n
              /\ br.answers[n] = StatusCreated
        /\ boot = SubSeq(BootstrapOrder, 1, Len(boot))
        /\ boot # <<>> =>
              /\ br.requests[1] = RequestOf.base
              /\ br.answers[1] # StatusOk
              /\ br.requests[2] = RequestOf.branches
              /\ br.requests[3] = RequestOf.blob
        /\ \A i \in 1..Len(br.answers) :
              (IsBootstrapRequest(br.requests[i]) /\ br.answers[i] # StatusCreated)
                  => /\ i = n
                     /\ br.pc = "returned"
                     /\ br.result = "false"
        /\ br.pc \in FetchStages \cup JsonStages \cup {"returned"}
        /\ br.pc = "returned" <=> br.result \in {"true", "false"}

\* The bootstrap created the blob, the tree was then refused, and the call
\* returned false with the tree request as its last.
C39_Witness ==
    /\ br.pc = "returned"
    /\ br.result = "false"
    /\ br.requests = <<RequestOf.base, RequestOf.branches,
                       RequestOf.blob, RequestOf.tree>>
    /\ br.answers[3] = StatusCreated
    /\ br.answers[4] = StatusOther

====
